---- MODULE Spec2Model ----
(***************************************************************************)
(* SmartLog append engine (projects/smartlog): smartlog_write_log_entry,   *)
(* smartlog_rotate_if_needed and the helpers of utils.c, modelled one      *)
(* system call per step over a small file system with a volatile view and  *)
(* a stable-storage (crash) view.                                          *)
(*                                                                         *)
(* Text is a sequence of one-character strings.  A path is such a          *)
(* sequence too; NULL is a pointer value that is not a text.               *)
(***************************************************************************)
EXTENDS Integers, Sequences, FiniteSets, TLC

\* ------------------------------------------------------------------ bounds
\* number of calls of smartlog_write_log_entry in one behaviour
MaxCalls == 2
\* number of system calls the environment lets fail in one behaviour (an
\* interrupted write and a failing close on an error path are not counted)
MaxFaults == 1
\* largest byte count of a short write()
MaxShort == 2
\* number of write() calls of one smartlog_write_all under a free schedule
MaxWrites == 5

\* --------------------------------------------------------- program constants
SMARTLOG_MSG_MAX_LEN == 256
SMARTLOG_PATH_MAX_LEN == 4096
SMARTLOG_LOG_BUFFER_SZ == 1024
FEATURE_DISABLED == 0
FEATURE_ENABLED == 1

\* ------------------------------------------------------------------ values
NULL == <<"NULL">>
LogPath == <<"d", "/", "l">>
\* the directory that holds the log and its backup
LogDir == <<"d">>
Procs == {1, 2}

\* a path of n bytes: directories "d" and the file "l"
PathOfLen(n) == [i \in 1..n |-> IF i = n THEN "l"
                                ELSE IF i = n - 1 \/ i % 2 = 0 THEN "/" ELSE "d"]

\* the longest path whose backup name fits the buffer of
\* SMARTLOG_PATH_MAX_LEN bytes, and the shortest whose backup name does not
NearPath == PathOfLen(SMARTLOG_PATH_MAX_LEN - 3)
LongPath == PathOfLen(SMARTLOG_PATH_MAX_LEN - 2)

\* max_byte_val arguments used with rotation enabled
MaxByteVals == {66}

\* a max_byte_val smaller than any entry
SmallByteVals == {10}

\* the arguments a caller passes
PathArgs == {NULL, <<>>, LogPath}
MsgArgs == {NULL, <<>>, <<"a">>, <<"b", "c">>}

\* the decimal digits
DigitChars == <<"0", "1", "2", "3", "4", "5", "6", "7", "8", "9">>

\* a message of n bytes
MsgOfLen(n) == [i \in 1..n |-> "m"]

\* a message of n bytes whose bytes differ along the message
PatternMsg(n) == [i \in 1..n |-> DigitChars[(i % 10) + 1]]

\* the messages of the runs that start from an empty directory
LongMsgArgs == {<<"a">>, MsgOfLen(SMARTLOG_MSG_MAX_LEN)}

\* messages at the message limit, one byte over it, and of 300 bytes
TruncMsgArgs == {MsgOfLen(SMARTLOG_MSG_MAX_LEN),
                 PatternMsg(SMARTLOG_MSG_MAX_LEN + 1), PatternMsg(300)}

\* getpid() of the calling process
PidOf(p) == 40 + p

\* clock_gettime(CLOCK_REALTIME): the reading taken during the n-th call
ClockSec(n) == 0
ClockNsec(n) == 8 + n

\* ------------------------------------------------------------ text helpers
RECURSIVE Decimal(_)
\* %llu / %ld of a non-negative number
Decimal(n) == IF n < 10 THEN <<DigitChars[n + 1]>>
              ELSE Decimal(n \div 10) \o <<DigitChars[(n % 10) + 1]>>

\* strlen
StrLen(s) == Len(s)

\* "%s.1"
BackupNameBad(path) == path \o <<".", "2">>
BackupName(path) == path \o <<".", "1">>

\* the message that is logged: msg, or its first 253 bytes and "..."
TruncateMsgBad(msg) == IF StrLen(msg) > SMARTLOG_MSG_MAX_LEN
                       THEN SubSeq(msg, 1, SMARTLOG_MSG_MAX_LEN)
                       ELSE msg
TruncateMsgNone(msg) == msg
TruncateMsg(msg) == IF StrLen(msg) > SMARTLOG_MSG_MAX_LEN
                    THEN SubSeq(msg, 1, SMARTLOG_MSG_MAX_LEN - 3) \o <<".", ".", ".">>
                    ELSE msg

\* snprintf "[%llu ns] [PID = %ld] [MESSAGE = %s]\n"
FormatEntryBad(time_ns, pid, msg) ==
    <<"[">> \o Decimal(time_ns)
    \o <<" ", "n", "s", "]", " ", "[", "P", "I", "D", " ", "=", " ">>
    \o Decimal(pid)
    \o <<"]", " ", "[", "M", "E", "S", "S", "A", "G", "E", " ", "=", " ">>
    \o msg \o <<"]">>
FormatEntry(time_ns, pid, msg) ==
    <<"[">> \o Decimal(time_ns)
    \o <<" ", "n", "s", "]", " ", "[", "P", "I", "D", " ", "=", " ">>
    \o Decimal(pid)
    \o <<"]", " ", "[", "M", "E", "S", "S", "A", "G", "E", " ", "=", " ">>
    \o msg \o <<"]", "\n">>

\* tv_sec * 1000000000 + tv_nsec (the readings used stay far below 2^64)
TimestampValue(tv_sec, tv_nsec) == (tv_sec * 1000000000) + tv_nsec

\* the argument checks at the head of smartlog_write_log_entry
ArgsInvalidNullOnly(file_path, msg) == file_path = NULL \/ msg = NULL
ArgsInvalid(file_path, msg) ==
    \/ file_path = NULL
    \/ msg = NULL
    \/ StrLen(msg) = 0

\* smartlog_rotate_if_needed has nothing to do: rotation is not configured
\* or the stat step found no file
RotationSkippedBad(max_bytes_config, file1_exist) == max_bytes_config # FEATURE_ENABLED
RotationSkipped(max_bytes_config, file1_exist) ==
    max_bytes_config # FEATURE_ENABLED \/ file1_exist # 0

\* the rotation trigger of smartlog_rotate_if_needed
RotationDueBad(max_byte_val, cur_file_size, log_len) ==
    ~(max_byte_val > cur_file_size + log_len)
RotationDueCurOnly(max_byte_val, cur_file_size, log_len) ==
    ~(max_byte_val >= cur_file_size)
RotationDue(max_byte_val, cur_file_size, log_len) ==
    ~(max_byte_val >= cur_file_size + log_len)

\* the file type test applied to the stat result
RejectedModeNone(st_mode) == FALSE
RejectedModeNonRegular(st_mode) == st_mode # "reg"
RejectedMode(st_mode) == st_mode = "dir"

RECURSIVE LastSlash(_, _)
\* strrchr(path, '/'): index of the last '/', 0 when there is none
LastSlash(s, i) == IF i = 0 THEN 0
                   ELSE IF s[i] = "/" THEN i ELSE LastSlash(s, i - 1)

\* the directory smartlog_fsync_parent_dir opens
ParentDirBad(path) == <<".">>
ParentDir(path) ==
    LET k == LastSlash(path, Len(path))
    IN  IF k = 0 THEN <<".">>
        ELSE IF k = 1 THEN <<"/">>
        ELSE SubSeq(path, 1, k - 1)

\* the buffers handed to smartlog_write_all under a free schedule
WriteBuffers == {<<"a", "b", "c", "d">>, <<"e", "\n">>, <<"f", "g", "h", "i", "\n">>}

\* ------------------------------------------------ mini_log: command line
\* largest number of arguments after the message
MaxOpts == 4

OptDurable == <<"-", "-", "d", "u", "r", "a", "b", "l", "e">>
OptMaxBytes == <<"-", "-", "m", "a", "x", "-", "b", "y", "t", "e", "s">>

\* the words a command line is made of after the path and the message
OptWords == {OptDurable, OptMaxBytes, <<"5">>, <<"0">>, <<"x">>, <<"-", "5">>}

\* the messages given on the command line
CliMsgs == {<<>>, <<"m">>}

RECURSIVE Tuples(_, _)
\* the sequences of n elements of S
Tuples(S, n) == IF n = 0 THEN {<<>>}
                ELSE {Append(t, x) : t \in Tuples(S, n - 1), x \in S}

\* argv without argv[0]: nothing, a path, or a path, a message and words
CliArgvs ==
    {<<>>, <<LogPath>>}
    \cup UNION {{<<LogPath, m>> \o t : m \in CliMsgs, t \in Tuples(OptWords, n)} : n \in 0..MaxOpts}

IsDigit(c) == \E d \in DOMAIN DigitChars : DigitChars[d] = c
DigitVal(c) == (CHOOSE d \in DOMAIN DigitChars : DigitChars[d] = c) - 1

RECURSIVE DigitRun(_, _)
\* the number of digits of s from position i on
DigitRun(s, i) == IF i > Len(s) \/ ~IsDigit(s[i]) THEN 0 ELSE 1 + DigitRun(s, i + 1)

RECURSIVE DigitsValue(_, _, _)
\* the value of the k digits of s from position i on
DigitsValue(s, i, k) == IF k = 0 THEN 0
                        ELSE (DigitsValue(s, i, k - 1) * 10) + DigitVal(s[i + k - 1])

\* strtoul(s, &endpoint, 10) of a word without white space: an optional
\* sign, then digits.  end is the number of bytes consumed (0: no
\* conversion); a negated value n stands for 2^64 - n
StrToUL(s) ==
    LET sign == IF Len(s) >= 1 /\ s[1] \in {"+", "-"} THEN 1 ELSE 0
        k == DigitRun(s, sign + 1)
        v == DigitsValue(s, sign + 1, k)
    IN  [end |-> IF k = 0 THEN 0 ELSE sign + k,
         temp |-> IF sign = 1 /\ s[1] = "-" THEN 0 - v ELSE v]

\* the test applied to the value of --max-bytes
MaxBytesRejected(s) ==
    LET c == StrToUL(s)
    IN  c.end = 0 \/ c.end # Len(s) \/ c.temp = 0

\* the steps of main after the argument checks that end it with return 1
CliFailures == {"stat_isdir", "stat", "snprintf", "unlink", "rename", "open_dir",
                "fsync_dir", "close_dir", "open", "fstat", "sigint", "write",
                "fdatasync", "close"}

\* mini_log before it is started
CliIdle == [pc |-> "idle", argc |-> 0, argv |-> <<>>, arg_idx |-> 0,
            durable |-> 0, max_bytes_config |-> 0, max_byte_val |-> 0,
            usage |-> "none", failed |-> FALSE, status |-> -1]

\* ------------------------------------------------------------------- state
VARIABLES
    names,            \* volatile directory: name -> inode number, 0 = no entry
    inodes,           \* volatile inodes: <<[kind, data]>>
    disk_names,       \* the directory as last synced to stable storage
    disk_data,        \* per inode, the data as last synced to stable storage
    fake_clock_fail,  \* SMARTLOG_FAKE_CLOCK_FAIL=1 in a fault-injection build
    loc,              \* per process: the arguments, locals and position of its call
    pre,              \* per process: the file system when its call started
    hist,             \* the caller's record of its appends, while all succeeded
    calls,            \* calls started so far
    faults,           \* environment faults produced so far
    cli               \* the run of the mini_log command line program

vars == <<names, inodes, disk_names, disk_data, fake_clock_fail, loc, pre, hist, calls,
          faults, cli>>

\* a file some earlier program left beside the log
OlderName == LogPath \o <<".", "2">>

\* the names a directory entry may have: the log, its backup, and names
\* beside them that no call is given
AllNames == {LogPath, BackupName(LogPath), OlderName,
             LogPath \o <<".", "1", ".", "1">>, LogPath \o <<".", "t", "m", "p">>}

\* the locals of a process that is not inside a call
IdleLoc ==
    [pc |-> "idle", file_path |-> NULL, arg_msg |-> NULL, msg |-> NULL, durable |-> FEATURE_DISABLED,
     max_bytes_config |-> FEATURE_DISABLED, max_byte_val |-> 0,
     file1_exist |-> 0, stat1_errno |-> "OK", st_size |-> 0, st_mode |-> "none",
     st_ino |-> 0,
     time_ns |-> 0, log_buffer |-> <<>>, log_len |-> 0,
     fd |-> 0, fd_dir |-> FALSE, site |-> "none", total |-> 0, bytes_written |-> 0,
     errno |-> "OK", saved_errno |-> "OK", errno_pre |-> "OK", ret |-> -1,
     rotated |-> FALSE, faulted |-> FALSE, ops |-> <<>>]

\* lookup of a path in the volatile directory ("" and unknown names: no entry)
Lookup(nms, path) == IF path \in DOMAIN nms THEN nms[path] ELSE 0

\* st_size as stat reports it: the byte count of a regular file, 0 otherwise
StSize(ino) == IF ino.kind = "reg" THEN Len(ino.data) ELSE 0

\* an inode that lost its last name and has no open descriptor is released
Unused(nms, lc, i) ==
    /\ \A n \in DOMAIN nms : nms[n] # i
    /\ \A q \in Procs : lc[q].fd # i

Reclaim(inos, nms, lc) ==
    [i \in DOMAIN inos |->
        IF Unused(nms, lc, i) THEN [kind |-> "free", data |-> <<>>] ELSE inos[i]]

Op(name, path) == [op |-> name, path |-> path, ok |-> TRUE, err |-> "OK"]

\* a return of smartlog_write_log_entry
Return(r, rc, e) == [r EXCEPT !.pc = "done", !.ret = rc, !.errno = e]

\* one more system call recorded in the call's trace
Did(r, name, path) == [r EXCEPT !.ops = Append(@, Op(name, path))]

\* the system call recorded last failed with errno e
Failed(r, e) == [r EXCEPT !.ops[Len(r.ops)].ok = FALSE, !.ops[Len(r.ops)].err = e]

\* the environment may still produce a fault; Fault marks a failure that the
\* state of the file system does not explain
CanFault == faults < MaxFaults
Fault(r, e) == [Failed(r, e) EXCEPT !.faulted = TRUE]

\* the data of the file a path names, <<>> when it names none
FileData(nms, inos, path) ==
    IF Lookup(nms, path) = 0 THEN <<>> ELSE inos[Lookup(nms, path)].data

\* the caller's record before its first append: the log as it found it
NoHist(nms, inos) == [base |-> FileData(nms, inos, LogPath), entries |-> <<>>, clean |-> TRUE]

\* the record after a call returned: one more entry, or no record any more
\* once a call failed or rotated the log
Recorded(h, r, pid) ==
    IF h.clean /\ r.ret = 0 /\ ~r.rotated
    THEN [h EXCEPT !.entries = Append(@, [time_ns |-> r.time_ns, pid |-> pid,
                                          msg |-> r.arg_msg])]
    ELSE [base |-> <<>>, entries |-> <<>>, clean |-> FALSE]

\* the log and its backup as a run may find them: <<main, backup>>, each
\* no file (<<>>) or one inode
InitFiles ==
    LET none == <<>>
        file(k, d) == <<[kind |-> k, data |-> d]>>
    IN  { <<none, none>>,
          <<none, file("reg", <<"o", "\n">>)>>,
          <<file("reg", <<"x", "\n">>), none>>,
          <<file("reg", <<"x", "\n">>), file("reg", <<"o", "\n">>)>>,
          <<file("dir", <<>>), file("reg", <<"o", "\n">>)>>,
          <<file("other", <<>>), none>> }

Init ==
    /\ \E f \in InitFiles :
         LET main == f[1]
             bak == f[2]
             older == <<[kind |-> "reg", data |-> <<"s", "\n">>]>>
         IN  /\ inodes = main \o bak \o older
             /\ names = [n \in AllNames |->
                           IF n = LogPath THEN (IF main = <<>> THEN 0 ELSE 1)
                           ELSE IF n = BackupName(LogPath)
                           THEN (IF bak = <<>> THEN 0 ELSE Len(main) + 1)
                           ELSE IF n = OlderName THEN Len(main) + Len(bak) + 1
                           ELSE 0]
             /\ disk_names = names
             /\ disk_data = [i \in DOMAIN inodes |-> inodes[i].data]
    /\ fake_clock_fail \in BOOLEAN
    /\ loc = [p \in Procs |-> IdleLoc]
    /\ pre = [p \in Procs |-> [names |-> names, inodes |-> inodes]]
    /\ hist = NoHist(names, inodes)
    /\ calls = 0
    /\ faults = 0
    /\ cli = CliIdle

\* ----------------------------------------------- smartlog_write_log_entry
\* entry and the argument checks, the caller drawing its arguments from
\* paths, msgs and (with rotation enabled) vals
CallWithin(p, paths, msgs, vals, limit) ==
    /\ loc[p].pc = "idle"
    /\ calls < limit
    /\ \E file_path \in paths, msg \in msgs,
          durable \in {FEATURE_DISABLED, FEATURE_ENABLED},
          cfg \in {FEATURE_DISABLED, FEATURE_ENABLED},
          val \in vals \cup {0} :
         /\ (cfg = FEATURE_ENABLED) <=> (val # 0)
         /\ LET r == [IdleLoc EXCEPT !.file_path = file_path,
                                     !.arg_msg = msg, !.msg = msg,
                                     !.durable = durable,
                                     !.max_bytes_config = cfg, !.max_byte_val = val]
            IN  loc' = [loc EXCEPT ![p] =
                          IF ArgsInvalid(file_path, msg)
                          THEN Return(r, 1, "EINVAL")
                          ELSE [r EXCEPT !.pc = "stat"]]
    /\ calls' = calls + 1
    /\ pre' = [pre EXCEPT ![p] = [names |-> names, inodes |-> inodes]]
    /\ UNCHANGED <<cli, names, inodes, disk_names, disk_data, fake_clock_fail, hist, faults>>

\* at most MaxCalls calls are made
CallWith(p, paths, msgs, vals) == CallWithin(p, paths, msgs, vals, MaxCalls)

CallFrom(p, paths, msgs) == CallWith(p, paths, msgs, MaxByteVals)

Call(p) == CallFrom(p, PathArgs, MsgArgs)

\* the checks on the result of stat(file_path), which returned rc with
\* errno e and, when rc = 0, the type and size of the file: a directory is
\* rejected, an error other than ENOENT is returned
AfterStatIgnoresError(r, rc, e, st_mode, st_size) ==
    IF rc = 0
    THEN LET s == [r EXCEPT !.file1_exist = 0, !.stat1_errno = "OK", !.errno = "OK",
                            !.st_mode = st_mode, !.st_size = st_size]
         IN  IF RejectedMode(s.st_mode) THEN Return(s, 1, "EISDIR")
             ELSE [s EXCEPT !.pc = "format"]
    ELSE [r EXCEPT !.file1_exist = -1, !.stat1_errno = e, !.errno = e, !.pc = "format"]
AfterStat(r, rc, e, st_mode, st_size) ==
    IF rc = 0
    THEN LET s == [r EXCEPT !.file1_exist = 0, !.stat1_errno = "OK", !.errno = "OK",
                            !.st_mode = st_mode, !.st_size = st_size]
         IN  IF RejectedMode(s.st_mode) THEN Return(s, 1, "EISDIR")
             ELSE [s EXCEPT !.pc = "format"]
    ELSE LET s == [r EXCEPT !.file1_exist = -1, !.stat1_errno = e, !.errno = e]
         IN  IF e # "ENOENT" THEN Return(s, 1, e)
             ELSE [s EXCEPT !.pc = "format"]

\* stat(file_path) and the file type check
Stat(p) ==
    /\ loc[p].pc = "stat"
    /\ LET r == Did(loc[p], "stat", loc[p].file_path)
           i == Lookup(names, r.file_path)
       IN  \/ /\ CanFault
              /\ faults' = faults + 1
              /\ loc' = [loc EXCEPT ![p] =
                           AfterStat(Fault(r, "EACCES"), -1, "EACCES", "none", 0)]
           \/ /\ UNCHANGED faults
              /\ loc' = [loc EXCEPT ![p] =
                           IF i = 0
                           THEN AfterStat(Failed(r, "ENOENT"), -1, "ENOENT", "none", 0)
                           ELSE AfterStat([r EXCEPT !.st_ino = i], 0, "OK",
                                          inodes[i].kind, StSize(inodes[i]))]
    /\ UNCHANGED <<cli, names, inodes, disk_names, disk_data, fake_clock_fail, pre, hist, calls>>

\* smartlog_timestamp_ns: the reading, or 0 with errno set when the clock fails
Format(p) ==
    /\ loc[p].pc = "format"
    /\ LET r == loc[p]
           done(time_ns, e) ==
               LET m == TruncateMsg(r.msg)
                   line == FormatEntry(time_ns, PidOf(p), m)
                   s == [r EXCEPT !.msg = m, !.time_ns = time_ns, !.errno = e,
                                  !.log_buffer = line, !.log_len = Len(line)]
               IN  IF s.log_len >= SMARTLOG_LOG_BUFFER_SZ
                   THEN Return(s, 1, "EOVERFLOW")
                   ELSE [s EXCEPT !.pc = "rotate"]
       IN  \/ /\ fake_clock_fail
              /\ UNCHANGED faults
              /\ loc' = [loc EXCEPT ![p] = done(0, "EIO")]
           \/ /\ ~fake_clock_fail
              /\ CanFault
              /\ faults' = faults + 1
              /\ loc' = [loc EXCEPT ![p] = done(0, "EINVAL")]
           \/ /\ ~fake_clock_fail
              /\ UNCHANGED faults
              /\ loc' = [loc EXCEPT ![p] =
                           done(TimestampValue(ClockSec(calls), ClockNsec(calls)), r.errno)]
    /\ UNCHANGED <<cli, names, inodes, disk_names, disk_data, fake_clock_fail, pre, hist, calls>>

\* ---------------------------------------------- smartlog_rotate_if_needed
\* the decision: no rotation, or the backup name is built
RotateDecide(p) ==
    /\ loc[p].pc = "rotate"
    /\ LET r == loc[p]
       IN  loc' = [loc EXCEPT ![p] =
             IF RotationSkipped(r.max_bytes_config, r.file1_exist)
             THEN [r EXCEPT !.pc = "open"]
             ELSE IF ~RotationDue(r.max_byte_val, r.st_size, r.log_len)
             THEN [r EXCEPT !.pc = "open"]
             ELSE IF StrLen(BackupName(r.file_path)) >= SMARTLOG_PATH_MAX_LEN
             THEN Return(r, 1, "ENAMETOOLONG")
             ELSE [r EXCEPT !.pc = "unlink"]]
    /\ UNCHANGED <<cli, names, inodes, disk_names, disk_data, fake_clock_fail, pre, hist, calls, faults>>

\* the check on the result of unlink(new_path), which returned rc with
\* errno e: ENOENT is ignored
AfterUnlinkStrict(r, rc, e) ==
    IF rc < 0 THEN Return(r, 1, e) ELSE [r EXCEPT !.pc = "rename"]
AfterUnlink(r, rc, e) ==
    IF rc < 0
    THEN IF e # "ENOENT" THEN Return(r, 1, e)
         ELSE [r EXCEPT !.errno = e, !.pc = "rename"]
    ELSE [r EXCEPT !.pc = "rename"]

\* unlink(new_path)
Unlink(p) ==
    /\ loc[p].pc = "unlink"
    /\ LET new_path == BackupName(loc[p].file_path)
           r == Did(loc[p], "unlink", new_path)
       IN  \/ /\ CanFault
              /\ faults' = faults + 1
              /\ loc' = [loc EXCEPT ![p] = AfterUnlink(Fault(r, "EPERM"), -1, "EPERM")]
              /\ UNCHANGED <<names, inodes>>
           \/ /\ UNCHANGED faults
              /\ IF Lookup(names, new_path) = 0
                 THEN /\ loc' = [loc EXCEPT ![p] = AfterUnlink(Failed(r, "ENOENT"), -1, "ENOENT")]
                      /\ UNCHANGED <<names, inodes>>
                 ELSE /\ loc' = [loc EXCEPT ![p] = AfterUnlink(r, 0, r.errno)]
                      /\ names' = [names EXCEPT ![new_path] = 0]
                      /\ inodes' = Reclaim(inodes, names', loc')
    /\ UNCHANGED <<cli, disk_names, disk_data, fake_clock_fail, pre, hist, calls>>

\* what follows a successful rename when no directory sync is pending
Rotated(r) == [r EXCEPT !.stat1_errno = "ENOENT", !.file1_exist = -1, !.rotated = TRUE,
                         !.pc = "open"]

\* the directory after rename(old, new): new names old's inode, old is gone
RenamedLoses(nms, old, new) == [nms EXCEPT ![old] = 0, ![new] = 0]
RenamedKeepsOld(nms, old, new) == [nms EXCEPT ![new] = nms[old]]
RenamedBad(nms, old, new) == [nms EXCEPT ![old] = 0]
Renamed(nms, old, new) == [nms EXCEPT ![new] = nms[old], ![old] = 0]

\* the check on the result of rename(file_path, new_path), which returned
\* rc with errno e, and the directory sync of a durable rotation
AfterRenameIgnoresError(r, rc, e) ==
    IF r.durable = FEATURE_ENABLED
    THEN [r EXCEPT !.pc = "dir_open", !.site = "rot"]
    ELSE Rotated(r)
AfterRename(r, rc, e) ==
    IF rc < 0 THEN Return(r, 1, e)
    ELSE IF r.durable = FEATURE_ENABLED
    THEN [r EXCEPT !.pc = "dir_open", !.site = "rot"]
    ELSE Rotated(r)

\* rename(file_path, new_path)
Rename(p) ==
    /\ loc[p].pc = "rename"
    /\ LET new_path == BackupName(loc[p].file_path)
           r == Did(loc[p], "rename", loc[p].file_path)
       IN  \/ /\ CanFault
              /\ faults' = faults + 1
              /\ loc' = [loc EXCEPT ![p] = AfterRename(Fault(r, "EXDEV"), -1, "EXDEV")]
              /\ UNCHANGED <<names, inodes>>
           \/ /\ UNCHANGED faults
              /\ IF Lookup(names, r.file_path) = 0
                 THEN /\ loc' = [loc EXCEPT ![p] = AfterRename(Failed(r, "ENOENT"), -1, "ENOENT")]
                      /\ UNCHANGED <<names, inodes>>
                 ELSE /\ loc' = [loc EXCEPT ![p] = AfterRename(r, 0, r.errno)]
                      /\ names' = Renamed(names, r.file_path, new_path)
                      /\ inodes' = Reclaim(inodes, names', loc')
    /\ UNCHANGED <<cli, disk_names, disk_data, fake_clock_fail, pre, hist, calls>>

\* ---------------------------------------------- smartlog_fsync_parent_dir
\* the caller's step after smartlog_fsync_parent_dir returned rc with errno e
AfterDirSyncRotBad(r, rc, e) ==
    IF r.site = "rot" THEN Rotated([r EXCEPT !.errno = e])
    ELSE IF rc # 0 THEN [r EXCEPT !.saved_errno = e, !.errno = e, !.pc = "errclose"]
         ELSE [r EXCEPT !.errno = e, !.pc = "close"]
AfterDirSyncLeak(r, rc, e) ==
    IF rc # 0 THEN Return(r, 1, e)
    ELSE IF r.site = "rot" THEN Rotated([r EXCEPT !.errno = e])
    ELSE [r EXCEPT !.errno = e, !.pc = "close"]
AfterDirSyncBad(r, rc, e) ==
    IF r.site = "rot"
    THEN IF rc # 0 THEN Return(r, 1, e) ELSE Rotated([r EXCEPT !.errno = e])
    ELSE [r EXCEPT !.errno = e, !.pc = "close"]
AfterDirSync(r, rc, e) ==
    IF r.site = "rot"
    THEN IF rc # 0 THEN Return(r, 1, e) ELSE Rotated([r EXCEPT !.errno = e])
    ELSE IF rc # 0 THEN [r EXCEPT !.saved_errno = e, !.errno = e, !.pc = "errclose"]
         ELSE [r EXCEPT !.errno = e, !.pc = "close"]

\* the path checks and open(dir_path, O_RDONLY | O_DIRECTORY)
DirOpen(p) ==
    /\ loc[p].pc = "dir_open"
    /\ LET r == loc[p]
           bad == r.file_path = NULL \/ StrLen(r.file_path) = 0
           long == StrLen(r.file_path) >= SMARTLOG_PATH_MAX_LEN
           o == Did(r, "open", ParentDir(r.file_path))
       IN  \/ /\ CanFault
              /\ ~bad /\ ~long
              /\ faults' = faults + 1
              /\ loc' = [loc EXCEPT ![p] = AfterDirSync(Fault(o, "EMFILE"), -1, "EMFILE")]
           \/ /\ UNCHANGED faults
              /\ loc' = [loc EXCEPT ![p] =
                           IF bad THEN AfterDirSync(r, -1, "EINVAL")
                           ELSE IF long THEN AfterDirSync(r, -1, "ENAMETOOLONG")
                           ELSE [o EXCEPT !.fd_dir = TRUE, !.pc = "dir_fsync"]]
    /\ UNCHANGED <<cli, names, inodes, disk_names, disk_data, fake_clock_fail, pre, hist, calls>>

\* fsync(fd_dir): the directory entries reach stable storage
DirFsync(p) ==
    /\ loc[p].pc = "dir_fsync"
    /\ LET r == Did(loc[p], "fsync", ParentDir(loc[p].file_path))
       IN  \/ /\ CanFault
              /\ faults' = faults + 1
              /\ loc' = [loc EXCEPT ![p] =
                           [Fault(r, "EIO") EXCEPT !.errno = "EIO", !.errno_pre = "EIO",
                                            !.pc = "dir_errclose"]]
              /\ UNCHANGED disk_names
           \/ /\ UNCHANGED faults
              /\ loc' = [loc EXCEPT ![p] = [r EXCEPT !.pc = "dir_close"]]
              /\ disk_names' = IF ParentDir(r.file_path) = LogDir THEN names
                                ELSE disk_names
    /\ UNCHANGED <<cli, names, inodes, disk_data, fake_clock_fail, pre, hist, calls>>

\* close(fd_dir) after a successful fsync
DirClose(p) ==
    /\ loc[p].pc = "dir_close"
    /\ LET r == [Did(loc[p], "close", ParentDir(loc[p].file_path)) EXCEPT !.fd_dir = FALSE]
       IN  \/ /\ CanFault
              /\ faults' = faults + 1
              /\ loc' = [loc EXCEPT ![p] = AfterDirSync(Fault(r, "EINTR"), -1, "EINTR")]
           \/ /\ UNCHANGED faults
              /\ loc' = [loc EXCEPT ![p] = AfterDirSync(r, 0, r.errno)]
    /\ UNCHANGED <<cli, names, inodes, disk_names, disk_data, fake_clock_fail, pre, hist, calls>>

\* close(fd_dir) after a failed fsync, failing or not; errno is restored
DirErrClose(p) ==
    /\ loc[p].pc = "dir_errclose"
    /\ LET r == [Did(loc[p], "close", ParentDir(loc[p].file_path)) EXCEPT !.fd_dir = FALSE]
       IN  \/ loc' = [loc EXCEPT ![p] = AfterDirSync(r, -1, r.errno_pre)]
           \/ loc' = [loc EXCEPT ![p] = AfterDirSync(Failed(r, "EINTR"), -1, r.errno_pre)]
    /\ UNCHANGED <<cli, names, inodes, disk_names, disk_data, fake_clock_fail, pre, hist, calls, faults>>

\* ------------------------------------- smartlog_write_log_entry, continued
\* entry of smartlog_write_all: errno = 0, total = 0
StartWrite(r) == [r EXCEPT !.pc = "write", !.total = 0, !.errno = "OK"]

\* after open(): fstat only when the file was absent at the stat step
AfterOpen(r) ==
    IF r.file1_exist # 0 /\ r.stat1_errno = "ENOENT"
    THEN [r EXCEPT !.pc = "fstat"]
    ELSE StartWrite(r)

\* open(file_path, O_WRONLY | O_CREAT | O_APPEND, SMARTLOG_FILE_MODE)
Open(p) ==
    /\ loc[p].pc = "open"
    /\ LET r == Did(loc[p], "open", loc[p].file_path)
           i == Lookup(names, r.file_path)
       IN  \/ /\ CanFault
              /\ faults' = faults + 1
              /\ loc' = [loc EXCEPT ![p] = Return(Fault(r, "EACCES"), 1, "EACCES")]
              /\ UNCHANGED <<names, inodes, disk_data>>
           \/ /\ UNCHANGED faults
              /\ IF r.file_path \notin DOMAIN names
                 THEN /\ loc' = [loc EXCEPT ![p] = Return(Failed(r, "ENOENT"), 1, "ENOENT")]
                      /\ UNCHANGED <<names, inodes, disk_data>>
                 ELSE IF i = 0
                 THEN /\ inodes' = Append(inodes, [kind |-> "reg", data |-> <<>>])
                      /\ disk_data' = Append(disk_data, <<>>)
                      /\ names' = [names EXCEPT ![r.file_path] = Len(inodes) + 1]
                      /\ loc' = [loc EXCEPT ![p] = AfterOpen([r EXCEPT !.fd = Len(inodes) + 1])]
                 ELSE IF inodes[i].kind = "dir"
                 THEN /\ loc' = [loc EXCEPT ![p] = Return(Failed(r, "EISDIR"), 1, "EISDIR")]
                      /\ UNCHANGED <<names, inodes, disk_data>>
                 ELSE /\ loc' = [loc EXCEPT ![p] = AfterOpen([r EXCEPT !.fd = i])]
                      /\ UNCHANGED <<names, inodes, disk_data>>
    /\ UNCHANGED <<cli, disk_names, fake_clock_fail, pre, hist, calls>>

\* fstat(fd) of the file just created
Fstat(p) ==
    /\ loc[p].pc = "fstat"
    /\ LET r == Did(loc[p], "fstat", loc[p].file_path)
       IN  \/ /\ CanFault
              /\ faults' = faults + 1
              /\ loc' = [loc EXCEPT ![p] =
                           [Fault(r, "EBADF") EXCEPT !.errno = "EBADF", !.saved_errno = "EBADF",
                                            !.pc = "errclose"]]
           \/ /\ UNCHANGED faults
              /\ loc' = [loc EXCEPT ![p] = StartWrite(r)]
    /\ UNCHANGED <<cli, names, inodes, disk_names, disk_data, fake_clock_fail, pre, hist, calls>>

\* the byte counts a short write() may return when rem bytes remain
ShortCounts(rem) == {n \in 1..(rem - 1) : n <= MaxShort}

\* the progress of smartlog_write_all after a write() of n bytes
WroteStalls(r, n) == r
WroteShortIsAll(r, n) == [r EXCEPT !.total = r.log_len, !.pc = "close"]
WroteNoSync(r, n) ==
    LET s == [r EXCEPT !.total = @ + n]
    IN  IF s.total < s.log_len THEN s ELSE [s EXCEPT !.pc = "close"]
WroteThenDirSync(r, n) ==
    LET s == [r EXCEPT !.total = @ + n]
    IN  IF s.total < s.log_len THEN s
        ELSE IF s.durable = FEATURE_ENABLED THEN [s EXCEPT !.pc = "dir_open", !.site = "dur"]
        ELSE [s EXCEPT !.pc = "close"]
Wrote(r, n) ==
    LET s == [r EXCEPT !.total = @ + n]
    IN  IF s.total < s.log_len THEN s
        ELSE IF s.durable = FEATURE_ENABLED THEN [s EXCEPT !.pc = "fdatasync"]
        ELSE [s EXCEPT !.pc = "close"]

\* the file after write() on a descriptor opened with O_APPEND: the bytes
\* go to the end of the file, whatever the file held when it was opened
FileAfterWriteAtOffset(data, r, chunk) ==
    LET at == r.st_size + r.total
        pos == IF at < Len(data) THEN at ELSE Len(data)
    IN  SubSeq(data, 1, pos) \o chunk \o SubSeq(data, pos + Len(chunk) + 1, Len(data))
FileAfterWritePrepends(data, r, chunk) == chunk \o data
FileAfterWrite(data, r, chunk) == data \o chunk

\* the bytes write() takes from the buffer
WriteChunkBad(r, n) == SubSeq(r.log_buffer, 1, n)
WriteChunk(r, n) == SubSeq(r.log_buffer, r.total + 1, r.total + n)

\* the body of the loop with a failed write retried once bytes were written
AfterWriteResume(r, bytes_written, e) ==
    LET s == [r EXCEPT !.bytes_written = bytes_written]
        w == Wrote(s, bytes_written)
        failed(err) == IF r.total > 0 THEN [Fault(s, err) EXCEPT !.errno = err]
                       ELSE [Fault(s, err) EXCEPT !.errno = err, !.saved_errno = err,
                                                  !.pc = "errclose"]
    IN  IF bytes_written < 0
        THEN IF e = "EINTR" THEN [Failed(s, e) EXCEPT !.errno = e]
             ELSE failed(e)
        ELSE IF bytes_written = 0 THEN failed("EIO")
        ELSE IF w.pc = "write" THEN w
        ELSE [w EXCEPT !.bytes_written = 0]

\* the body of the loop with a count of 0 taken as progress
AfterWriteZeroRetry(r, bytes_written, e) ==
    LET s == [r EXCEPT !.bytes_written = bytes_written]
    IN  IF bytes_written < 0
        THEN IF e = "EINTR" THEN [Failed(s, e) EXCEPT !.errno = e]
             ELSE [Fault(s, e) EXCEPT !.errno = e, !.saved_errno = e, !.pc = "errclose"]
        ELSE Wrote(s, bytes_written)

\* the body of the loop of smartlog_write_all after write() returned
\* bytes_written with errno e: EINTR is retried, any other failure and a
\* count of 0 (errno = EIO) end the loop with -1, a count is added to total.
\* The local bytes_written is gone when the loop has ended with 0
AfterWrite(r, bytes_written, e) ==
    LET s == [r EXCEPT !.bytes_written = bytes_written]
        w == Wrote(s, bytes_written)
        failed(err) == [Fault(s, err) EXCEPT !.errno = err, !.saved_errno = err,
                                             !.pc = "errclose"]
    IN  IF bytes_written < 0
        THEN IF e = "EINTR" THEN [Failed(s, e) EXCEPT !.errno = e]
             ELSE failed(e)
        ELSE IF bytes_written = 0 THEN failed("EIO")
        ELSE IF w.pc = "write" THEN w
        ELSE [w EXCEPT !.bytes_written = 0]

\* the results of one write() of the call r when rem bytes remain: all of
\* them, a short count, EINTR, 0, or a failure.  Under a free schedule every
\* short count and EINTR may come at every write; otherwise a short count of
\* at most MaxShort bytes comes at the first write of a call only and EINTR
\* not twice in a row
WriteCall(p, r, free) ==
    LET rem == r.log_len - r.total
        put(n) == inodes' = [inodes EXCEPT ![r.fd].data = FileAfterWrite(@, r, WriteChunk(r, n))]
    IN  \/ /\ UNCHANGED faults
           /\ put(rem)
           /\ loc' = [loc EXCEPT ![p] = AfterWrite(r, rem, r.errno)]
        \/ /\ free \/ r.total = 0
           /\ UNCHANGED faults
           /\ \E n \in (IF free THEN 1..(rem - 1) ELSE ShortCounts(rem)) :
                 /\ put(n)
                 /\ loc' = [loc EXCEPT ![p] = AfterWrite(r, n, r.errno)]
        \/ /\ free \/ r.errno # "EINTR"
           /\ UNCHANGED <<faults, inodes>>
           /\ loc' = [loc EXCEPT ![p] = AfterWrite(r, -1, "EINTR")]
        \/ /\ CanFault
           /\ faults' = faults + 1
           /\ UNCHANGED inodes
           /\ \/ loc' = [loc EXCEPT ![p] = AfterWrite(r, 0, r.errno)]
              \/ loc' = [loc EXCEPT ![p] = AfterWrite(r, -1, "ENOSPC")]

\* one write() of the loop of smartlog_write_all, recorded in the trace;
\* under a free schedule for MaxWrites writes
WriteSched(p, free) ==
    /\ loc[p].pc = "write"
    /\ free => Len(loc[p].ops) < MaxWrites
    /\ WriteCall(p, Did(loc[p], "write", loc[p].file_path), free)
    /\ UNCHANGED <<cli, names, disk_names, disk_data, fake_clock_fail, pre, hist, calls>>

Write(p) == WriteSched(p, FALSE)

\* fdatasync(fd): the file's data reaches stable storage
Fdatasync(p) ==
    /\ loc[p].pc = "fdatasync"
    /\ LET r == Did(loc[p], "fdatasync", loc[p].file_path)
       IN  \/ /\ CanFault
              /\ faults' = faults + 1
              /\ loc' = [loc EXCEPT ![p] =
                           [Fault(r, "EIO") EXCEPT !.errno = "EIO", !.saved_errno = "EIO",
                                            !.pc = "errclose"]]
              /\ UNCHANGED disk_data
           \/ /\ UNCHANGED faults
              /\ loc' = [loc EXCEPT ![p] = [r EXCEPT !.pc = "dir_open", !.site = "dur"]]
              /\ disk_data' = [disk_data EXCEPT ![r.fd] = inodes[r.fd].data]
    /\ UNCHANGED <<cli, names, inodes, disk_names, fake_clock_fail, pre, hist, calls>>

\* the return that follows the final close(fd), which returned rc with
\* errno e
AfterCloseBad(r, rc, e) == Return(r, 0, e)
AfterClose(r, rc, e) == IF rc < 0 THEN Return(r, 1, e) ELSE Return(r, 0, e)

\* the final close(fd) and the return
Close(p) ==
    /\ loc[p].pc = "close"
    /\ LET r == [Did(loc[p], "close", loc[p].file_path) EXCEPT !.fd = 0]
       IN  \/ /\ CanFault
              /\ faults' = faults + 1
              /\ loc' = [loc EXCEPT ![p] = AfterClose(Fault(r, "EDQUOT"), -1, "EDQUOT")]
           \/ /\ UNCHANGED faults
              /\ loc' = [loc EXCEPT ![p] = AfterClose(r, 0, r.errno)]
    /\ inodes' = Reclaim(inodes, names, loc')
    /\ UNCHANGED <<cli, names, disk_names, disk_data, fake_clock_fail, pre, hist, calls>>

\* the return of an error path after its close(fd) returned rc with errno e:
\* errno = saved_errno; return 1
AfterErrCloseBad(r, rc, e) == Return(r, 1, IF rc # 0 THEN e ELSE r.saved_errno)
AfterErrClose(r, rc, e) == Return(r, 1, r.saved_errno)

\* close(fd) on an error path, failing or not
ErrClose(p) ==
    /\ loc[p].pc = "errclose"
    /\ LET r == [Did(loc[p], "close", loc[p].file_path) EXCEPT !.fd = 0]
       IN  \/ loc' = [loc EXCEPT ![p] = AfterErrClose(r, 0, r.errno)]
           \/ loc' = [loc EXCEPT ![p] = AfterErrClose(Failed(r, "EDQUOT"), -1, "EDQUOT")]
    /\ inodes' = Reclaim(inodes, names, loc')
    /\ UNCHANGED <<cli, names, disk_names, disk_data, fake_clock_fail, pre, hist, calls, faults>>

\* the caller has read the result; the process is ready for its next call
Finish(p) ==
    /\ loc[p].pc = "done"
    /\ loc' = [loc EXCEPT ![p] = IdleLoc]
    /\ hist' = Recorded(hist, loc[p], PidOf(p))
    /\ UNCHANGED <<cli, names, inodes, disk_names, disk_data, fake_clock_fail, pre, calls, faults>>

\* ------------------------------------------------------------ specification
Step(p) ==
    \/ Call(p) \/ Stat(p) \/ Format(p)
    \/ RotateDecide(p) \/ Unlink(p) \/ Rename(p)
    \/ DirOpen(p) \/ DirFsync(p) \/ DirClose(p) \/ DirErrClose(p)
    \/ Open(p) \/ Fstat(p) \/ Write(p) \/ Fdatasync(p) \/ Close(p) \/ ErrClose(p)
    \/ Finish(p)

\* a single writer: process 1 makes every call
Next == Step(1)

Spec == Init /\ [][Next]_vars

\* a single writer that starts in an empty directory and also logs messages
\* as long as the message limit
InitFresh ==
    /\ inodes = <<>>
    /\ names = [n \in AllNames |-> 0]
    /\ disk_names = names
    /\ disk_data = <<>>
    /\ fake_clock_fail = FALSE
    /\ loc = [p \in Procs |-> IdleLoc]
    /\ pre = [p \in Procs |-> [names |-> names, inodes |-> inodes]]
    /\ hist = NoHist(names, inodes)
    /\ calls = 0
    /\ faults = 0
    /\ cli = CliIdle

CallLong(p) == CallFrom(p, {LogPath}, LongMsgArgs)

NextFresh ==
    \/ CallLong(1) \/ Stat(1) \/ Format(1)
    \/ RotateDecide(1) \/ Unlink(1) \/ Rename(1)
    \/ DirOpen(1) \/ DirFsync(1) \/ DirClose(1) \/ DirErrClose(1)
    \/ Open(1) \/ Fstat(1) \/ Write(1) \/ Fdatasync(1) \/ Close(1) \/ ErrClose(1)
    \/ Finish(1)

SpecFresh == InitFresh /\ [][NextFresh]_vars

\* a single writer that starts in an empty directory and logs messages at
\* and above the message limit, rotation disabled
CallTrunc(p) == CallWith(p, {LogPath}, TruncMsgArgs, {})

NextTrunc ==
    \/ CallTrunc(1) \/ Stat(1) \/ Format(1) \/ RotateDecide(1)
    \/ DirOpen(1) \/ DirFsync(1) \/ DirClose(1) \/ DirErrClose(1)
    \/ Open(1) \/ Fstat(1) \/ Write(1) \/ Fdatasync(1) \/ Close(1) \/ ErrClose(1)
    \/ Finish(1)

SpecTrunc == InitFresh /\ [][NextTrunc]_vars

\* a single writer with a rotation limit below the size of one entry; the
\* log is absent at first, its backup may exist
InitSmall ==
    /\ \E bak \in {<<>>, <<[kind |-> "reg", data |-> <<"o", "\n">>]>>} :
         /\ inodes = bak
         /\ names = [n \in AllNames |->
                       IF n = BackupName(LogPath) THEN Len(bak) ELSE 0]
    /\ disk_names = names
    /\ disk_data = [i \in DOMAIN inodes |-> inodes[i].data]
    /\ fake_clock_fail = FALSE
    /\ loc = [p \in Procs |-> IdleLoc]
    /\ pre = [p \in Procs |-> [names |-> names, inodes |-> inodes]]
    /\ hist = NoHist(names, inodes)
    /\ calls = 0
    /\ faults = 0
    /\ cli = CliIdle

CallSmall(p) == CallWith(p, {LogPath}, {<<"a">>}, SmallByteVals)

NextSmall ==
    \/ CallSmall(1) \/ Stat(1) \/ Format(1)
    \/ RotateDecide(1) \/ Unlink(1) \/ Rename(1)
    \/ DirOpen(1) \/ DirFsync(1) \/ DirClose(1) \/ DirErrClose(1)
    \/ Open(1) \/ Fstat(1) \/ Write(1) \/ Fdatasync(1) \/ Close(1) \/ ErrClose(1)
    \/ Finish(1)

SpecSmall == InitSmall /\ [][NextSmall]_vars


\* one call of a writer with a rotation limit below the size of one entry,
\* on a short path or on a path at the limit of the backup name buffer;
\* each path names a file, the short one may have a backup
RotateNames == AllNames \cup {NearPath, BackupName(NearPath), LongPath}

InitRotate ==
    /\ \E bak \in {<<>>, <<[kind |-> "reg", data |-> <<"o", "\n">>]>>} :
         /\ inodes = <<[kind |-> "reg", data |-> <<"x", "\n">>],
                       [kind |-> "reg", data |-> <<"y", "\n">>],
                       [kind |-> "reg", data |-> <<"z", "\n">>]>> \o bak
         /\ names = [n \in RotateNames |->
                       IF n = LogPath THEN 1
                       ELSE IF n = NearPath THEN 2
                       ELSE IF n = LongPath THEN 3
                       ELSE IF n = BackupName(LogPath) THEN (IF bak = <<>> THEN 0 ELSE 4)
                       ELSE 0]
    /\ disk_names = names
    /\ disk_data = [i \in DOMAIN inodes |-> inodes[i].data]
    /\ fake_clock_fail = FALSE
    /\ loc = [p \in Procs |-> IdleLoc]
    /\ pre = [p \in Procs |-> [names |-> names, inodes |-> inodes]]
    /\ hist = NoHist(names, inodes)
    /\ calls = 0
    /\ faults = 0
    /\ cli = CliIdle

CallRotate(p) == CallWith(p, {LogPath, NearPath, LongPath}, {<<"a">>}, SmallByteVals)

NextRotate ==
    \/ CallRotate(1) \/ Stat(1) \/ Format(1)
    \/ RotateDecide(1) \/ Unlink(1) \/ Rename(1)
    \/ DirOpen(1) \/ DirFsync(1) \/ DirClose(1) \/ DirErrClose(1)
    \/ Open(1) \/ Fstat(1) \/ Write(1) \/ Fdatasync(1) \/ Close(1) \/ ErrClose(1)

SpecRotate == InitRotate /\ [][NextRotate]_vars

\* two processes, each making one call on the same path with rotation
\* disabled, their system calls interleaved in every way; the log is absent
\* or not at first and no system call fails but for interrupted writes
InitTwo ==
    /\ \E main \in {<<>>, <<[kind |-> "reg", data |-> <<"x", "\n">>]>>} :
         /\ inodes = main
         /\ names = [n \in AllNames |-> IF n = LogPath THEN Len(main) ELSE 0]
    /\ disk_names = names
    /\ disk_data = [i \in DOMAIN inodes |-> inodes[i].data]
    /\ fake_clock_fail = FALSE
    /\ loc = [p \in Procs |-> IdleLoc]
    /\ pre = [p \in Procs |-> [names |-> names, inodes |-> inodes]]
    /\ hist = NoHist(names, inodes)
    /\ calls = 0
    /\ faults = MaxFaults
    /\ cli = CliIdle

CallTwo(p) == CallWith(p, {LogPath}, {<<"a">>}, {})

NextTwo ==
    \E p \in Procs :
       \/ CallTwo(p) \/ Stat(p) \/ Format(p) \/ RotateDecide(p)
       \/ DirOpen(p) \/ DirFsync(p) \/ DirClose(p)
       \/ Open(p) \/ Fstat(p) \/ Write(p) \/ Fdatasync(p) \/ Close(p)

SpecTwo == InitTwo /\ [][NextTwo]_vars

\* two processes, each making one call on the same path with rotation
\* enabled and a limit below the size of one entry, their system calls
\* interleaved in every way; the log exists,
\* its backup may, and no system call fails but for what the other process
\* did
InitRace ==
    /\ \E bak \in {<<>>, <<[kind |-> "reg", data |-> <<"o", "\n">>]>>} :
         /\ inodes = <<[kind |-> "reg", data |-> <<"x", "\n">>]>> \o bak
         /\ names = [n \in AllNames |->
                       IF n = LogPath THEN 1
                       ELSE IF n = BackupName(LogPath) THEN 2 * Len(bak)
                       ELSE 0]
    /\ disk_names = names
    /\ disk_data = [i \in DOMAIN inodes |-> inodes[i].data]
    /\ fake_clock_fail = FALSE
    /\ loc = [p \in Procs |-> IdleLoc]
    /\ pre = [p \in Procs |-> [names |-> names, inodes |-> inodes]]
    /\ hist = NoHist(names, inodes)
    /\ calls = 0
    /\ faults = MaxFaults
    /\ cli = CliIdle

\* a call with rotation enabled
CallRace(p) ==
    /\ CallSmall(p)
    /\ loc'[p].max_bytes_config = FEATURE_ENABLED

NextRace ==
    \E p \in Procs :
       \/ CallRace(p) \/ Stat(p) \/ Format(p)
       \/ RotateDecide(p) \/ Unlink(p) \/ Rename(p)
       \/ DirOpen(p) \/ DirFsync(p) \/ DirClose(p)
       \/ Open(p) \/ Fstat(p) \/ Write(p) \/ Fdatasync(p) \/ Close(p)

SpecRace == InitRace /\ [][NextRace]_vars

\* smartlog_write_all alone, under every schedule of short counts and
\* interrupts: the call is at the entry of smartlog_write_all with the log
\* open, empty or not, and a buffer to write
InitWriteAll ==
    /\ \E d \in {<<>>, <<"x", "\n">>} : inodes = <<[kind |-> "reg", data |-> d]>>
    /\ names = [n \in AllNames |-> IF n = LogPath THEN 1 ELSE 0]
    /\ disk_names = names
    /\ disk_data = <<inodes[1].data>>
    /\ fake_clock_fail = FALSE
    /\ \E b \in WriteBuffers :
          loc = [p \in Procs |->
                   IF p = 1
                   THEN StartWrite([IdleLoc EXCEPT !.file_path = LogPath, !.fd = 1,
                                                   !.log_buffer = b, !.log_len = Len(b)])
                   ELSE IdleLoc]
    /\ pre = [p \in Procs |-> [names |-> names, inodes |-> inodes]]
    /\ hist = NoHist(names, inodes)
    /\ calls = 1
    /\ faults = 0
    /\ cli = CliIdle

WriteAll(p) == WriteSched(p, TRUE)

NextWriteAll == WriteAll(1)

SpecWriteAll == InitWriteAll /\ [][NextWriteAll]_vars

\* the loop of smartlog_write_all with no bound on the number of its
\* iterations; the trace keeps the last write only
WriteLoop(p) ==
    /\ loc[p].pc = "write"
    /\ WriteCall(p, [loc[p] EXCEPT !.ops = <<Op("write", loc[p].file_path)>>], TRUE)
    /\ UNCHANGED <<cli, names, disk_names, disk_data, fake_clock_fail, pre, hist, calls>>

\* an iteration whose write() was not interrupted
WriteNotInterrupted(p) ==
    /\ WriteLoop(p)
    /\ ~(loc'[p].pc = "write" /\ loc'[p].bytes_written < 0)

NextWriteLoop == WriteLoop(1)

\* write() is interrupted only finitely many times in a row
SpecWriteLoop ==
    InitWriteAll /\ [][NextWriteLoop]_vars /\ WF_vars(WriteNotInterrupted(1))

\* ------------------------------------------------------------ mini_log main
\* the variables of the append engine
engine == <<names, inodes, disk_names, disk_data, fake_clock_fail, loc, pre, hist, calls,
            faults>>

\* argv[i] of the run (argv[0] is the program)
Argv(c, i) == c.argv[i]

\* the program is started with a command line
CliStart ==
    /\ cli.pc = "idle"
    /\ \E a \in CliArgvs :
          cli' = [CliIdle EXCEPT !.pc = "argc", !.argc = Len(a) + 1, !.argv = a]
    /\ UNCHANGED engine

\* return write_usage(msg): the status is what write_all returned
Usage(c, msg) == [c EXCEPT !.pc = "usage", !.usage = msg, !.failed = TRUE]

\* the argument count check
CliCheckArgc ==
    /\ cli.pc = "argc"
    /\ cli' = IF cli.argc < 3 \/ cli.argc > 6
              THEN Usage(cli, "usage")
              ELSE [cli EXCEPT !.pc = "parse", !.arg_idx = 3]
    /\ UNCHANGED engine

\* one turn of the loop over argv[3..]
CliParse ==
    /\ cli.pc = "parse"
    /\ cli' =
         IF ~(cli.arg_idx < cli.argc) THEN [cli EXCEPT !.pc = "message"]
         ELSE IF Argv(cli, cli.arg_idx) = OptDurable
         THEN [cli EXCEPT !.durable = 1, !.arg_idx = @ + 1]
         ELSE IF Argv(cli, cli.arg_idx) = OptMaxBytes
         THEN IF cli.argc <= cli.arg_idx + 1
              THEN Usage(cli, "missing")
              ELSE IF MaxBytesRejected(Argv(cli, cli.arg_idx + 1))
              THEN Usage(cli, "positive")
              ELSE [cli EXCEPT !.max_byte_val = StrToUL(Argv(cli, cli.arg_idx + 1)).temp,
                               !.max_bytes_config = 1, !.arg_idx = @ + 2]
         ELSE Usage(cli, "unknown")
    /\ UNCHANGED engine

\* the message must not be empty
CliMessage ==
    /\ cli.pc = "message"
    /\ cli' = IF StrLen(Argv(cli, 2)) = 0 THEN Usage(cli, "empty")
              ELSE [cli EXCEPT !.pc = "run"]
    /\ UNCHANGED engine

\* write_usage: write_all(STDERR_FILENO, ...) returns 0, or 1 when stderr
\* cannot be written, and main returns that value
CliUsage ==
    /\ cli.pc = "usage"
    /\ \E rc \in {0, 1} : cli' = [cli EXCEPT !.pc = "exit", !.status = rc]
    /\ UNCHANGED engine

\* the rest of main: the append, ended by the first step that fails with
\* return 1, or return 0
CliRun ==
    /\ cli.pc = "run"
    /\ \/ cli' = [cli EXCEPT !.pc = "exit", !.status = 0]
       \/ \E f \in CliFailures :
             /\ (f \in {"unlink", "rename", "open_dir", "fsync_dir", "close_dir"})
                => cli.max_bytes_config = 1
             /\ (f = "fdatasync") => cli.durable # 0
             /\ cli' = [cli EXCEPT !.pc = "exit", !.status = 1, !.failed = TRUE,
                                   !.usage = f]
    /\ UNCHANGED engine

InitCli == InitFresh

NextCli == CliStart \/ CliCheckArgc \/ CliParse \/ CliMessage \/ CliUsage \/ CliRun

SpecCli == InitCli /\ [][NextCli]_vars

\* ------------------------------------------------------------------ claims
\* the call of the single writer
W == loc[1]

\* the line the specification prescribes for an entry
Line(time_ns, pid, m) ==
    <<"[">> \o Decimal(time_ns) \o <<" ", "n", "s", "]", " ">>
    \o <<"[", "P", "I", "D", " ", "=", " ">> \o Decimal(pid) \o <<"]", " ">>
    \o <<"[", "M", "E", "S", "S", "A", "G", "E", " ", "=", " ">> \o m \o <<"]">>
    \o <<"\n">>

RECURSIVE Lines(_)
\* the lines of a sequence of recorded entries, one after the other
Lines(es) == IF es = <<>> THEN <<>>
             ELSE Line(es[1].time_ns, es[1].pid, es[1].msg) \o Lines(Tail(es))

\* the number of newline bytes in a text
Newlines(t) == Cardinality({i \in DOMAIN t : t[i] = "\n"})

Exists(nms, path) == Lookup(nms, path) # 0
MainData == FileData(names, inodes, LogPath)
BackupData == FileData(names, inodes, BackupName(LogPath))
PreMainData == FileData(pre[1].names, pre[1].inodes, LogPath)

\* the crash image: what the path holds on stable storage
DiskData(path) == IF Lookup(disk_names, path) = 0 THEN <<>>
                  ELSE disk_data[Lookup(disk_names, path)]

\* t ends with s
EndsWith(t, s) == Len(t) >= Len(s) /\ SubSeq(t, Len(t) - Len(s) + 1, Len(t)) = s

\* the positions in the call's trace of the system calls name(path)
OpsAt(r, name, path) == {i \in DOMAIN r.ops : r.ops[i].op = name /\ r.ops[i].path = path}
OpNames(r) == {r.ops[i].op : i \in DOMAIN r.ops}

\* the call was given arguments that pass validation and names the log
ValidCall(r) == r.file_path = LogPath /\ r.arg_msg # NULL /\ Len(r.arg_msg) > 0

\* C1: a non-empty message of at most 256 bytes appended to a path that does
\* not exist, rotation and durable off and no system call failing, returns 0
\* and leaves a regular file whose whole content is the one line
\* "[<timestamp> ns] [PID = <pid>] [MESSAGE = m]\n" with m verbatim.
C1_FreshPathRoundTrip ==
    ( /\ W.pc = "done"
      /\ ValidCall(W)
      /\ Len(W.arg_msg) <= SMARTLOG_MSG_MAX_LEN
      /\ ~Exists(pre[1].names, LogPath)
      /\ W.durable = FEATURE_DISABLED
      /\ W.max_bytes_config = FEATURE_DISABLED
      /\ ~W.faulted )
    => ( /\ W.ret = 0
         /\ Exists(names, LogPath)
         /\ inodes[names[LogPath]].kind = "reg"
         /\ MainData = Line(W.time_ns, PidOf(1), W.arg_msg) )

\* a 256-byte message was appended to a fresh path and the call returned 0
C1_Witness ==
    /\ W.pc = "done" /\ W.ret = 0
    /\ Len(W.arg_msg) = SMARTLOG_MSG_MAX_LEN
    /\ ~Exists(pre[1].names, LogPath)
    /\ W.durable = FEATURE_DISABLED /\ W.max_bytes_config = FEATURE_DISABLED
    /\ MainData = W.log_buffer
    /\ Len(MainData) > SMARTLOG_MSG_MAX_LEN

\* C2: every successful append in which no rotation triggered leaves the
\* content present before the call as an unmodified prefix and adds exactly
\* the one complete line of the call at the end; so after N successful
\* appends without rotation (durable or not) the file holds the content the
\* writer found followed by exactly the N lines, in call order.
C2_AppendOnly ==
    /\ (W.pc = "done" /\ W.ret = 0 /\ ~W.rotated)
       => MainData = PreMainData \o Line(W.time_ns, PidOf(1), W.arg_msg)
    /\ (W.pc = "idle" /\ hist.clean)
       => /\ MainData = hist.base \o Lines(hist.entries)
          /\ Newlines(MainData) = Newlines(hist.base) + Len(hist.entries)

\* two appends, one durable and one not, the second after a short write,
\* both succeeded without rotation on a file that had content before
C2_Witness ==
    /\ W.pc = "idle" /\ hist.clean
    /\ Len(hist.entries) = 2
    /\ hist.base # <<>>
    /\ hist.entries[1].time_ns < hist.entries[2].time_ns
    /\ Newlines(MainData) = 3

\* C3: with rotation enabled and the target existing at the stat step,
\* rotation triggers if and only if st_size + log_len > max_byte_val; an
\* entry that brings the file to exactly max_byte_val is appended without
\* rotation, and when the trigger holds the rename precedes every open and
\* write of the call.
C3_RotationTrigger ==
    LET existed == W.st_mode # "none"
        enabled == W.max_bytes_config = FEATURE_ENABLED
        decided == W.pc \notin {"idle", "stat", "format", "rotate"} /\ W.log_len > 0
        due == W.st_size + W.log_len > W.max_byte_val
        began == W.pc = "unlink" \/ "unlink" \in OpNames(W)
    IN  /\ (decided /\ enabled /\ existed) => (began <=> due)
        /\ (decided /\ ~(enabled /\ existed)) => ~began
        /\ \A i \in OpsAt(W, "open", W.file_path) \cup OpsAt(W, "write", W.file_path) :
              (enabled /\ existed /\ due)
              => \E j \in OpsAt(W, "rename", W.file_path) : j < i /\ W.ops[j].ok
        /\ (W.pc = "done" /\ W.ret = 0 /\ enabled /\ existed /\ ~due)
              => /\ ~W.rotated
                 /\ MainData = PreMainData \o Line(W.time_ns, PidOf(1), W.arg_msg)

\* an entry brought the file to exactly max_byte_val and was appended
\* without rotation
C3_Witness ==
    /\ W.pc = "done" /\ W.ret = 0
    /\ W.max_bytes_config = FEATURE_ENABLED
    /\ W.st_mode = "reg"
    /\ W.st_size + W.log_len = W.max_byte_val
    /\ Len(MainData) = W.max_byte_val
    /\ "rename" \notin OpNames(W)

\* C4: after a successful append in which rotation triggered, the backup
\* holds exactly the content the main file had before the call, nothing of
\* an earlier backup, and the main file holds exactly the new entry.
C4_RotationResult ==
    (W.pc = "done" /\ W.ret = 0 /\ W.rotated)
    => /\ Exists(names, BackupName(LogPath))
       /\ BackupData = PreMainData
       /\ names[BackupName(LogPath)] = pre[1].names[LogPath]
       /\ Exists(names, LogPath)
       /\ names[LogPath] # names[BackupName(LogPath)]
       /\ MainData = Line(W.time_ns, PidOf(1), W.arg_msg)

\* a rotation replaced an older backup
C4_Witness ==
    /\ W.pc = "done" /\ W.ret = 0 /\ W.rotated
    /\ Exists(pre[1].names, BackupName(LogPath))
    /\ FileData(pre[1].names, pre[1].inodes, BackupName(LogPath)) # PreMainData
    /\ BackupData = PreMainData
    /\ MainData = W.log_buffer

\* C5: a 0 return means the complete entry is at the end of the file in the
\* volatile view; with durable enabled it also means that fdatasync of the
\* log file and fsync of the parent directory both succeeded after the last
\* write and before the return, so that the entry is at the end of the file
\* on stable storage.
C5_DurableReturn ==
    (W.pc = "done" /\ W.ret = 0)
    => /\ EndsWith(MainData, Line(W.time_ns, PidOf(1), W.arg_msg))
       /\ (W.durable = FEATURE_ENABLED)
          => /\ \E i \in OpsAt(W, "fdatasync", W.file_path) :
                \E j \in OpsAt(W, "fsync", ParentDir(W.file_path)) :
                   /\ W.ops[i].ok /\ W.ops[j].ok /\ i < j
                   /\ \A k \in OpsAt(W, "write", W.file_path) : k < i
             /\ Exists(disk_names, LogPath)
             /\ disk_names[LogPath] = names[LogPath]
             /\ EndsWith(DiskData(LogPath), Line(W.time_ns, PidOf(1), W.arg_msg))

\* a durable append that rotated returned 0 with the entry on stable storage
C5_Witness ==
    /\ W.pc = "done" /\ W.ret = 0
    /\ W.durable = FEATURE_ENABLED
    /\ W.rotated
    /\ DiskData(LogPath) = W.log_buffer

\* a non-durable append returned 0 and stable storage does not hold the entry
C5_VolatileOnly ==
    /\ W.pc = "done" /\ W.ret = 0
    /\ W.durable = FEATURE_DISABLED
    /\ ~EndsWith(DiskData(LogPath), W.log_buffer)

\* the file system, volatile and stable, is as it was when the call started
Untouched ==
    /\ names = pre[1].names
    /\ inodes = pre[1].inodes
    /\ \A q \in Procs : loc[q].fd = 0 /\ ~loc[q].fd_dir

\* C6: with the clock source forced to fail, a call that reaches the
\* formatting step returns non-zero with errno EIO and writes no line.
C6_ClockFailureReported ==
    (fake_clock_fail /\ W.pc = "done" /\ ValidCall(W) /\ W.log_len > 0 /\ ~W.faulted)
    => /\ W.ret # 0
       /\ W.errno = "EIO"
       /\ "write" \notin OpNames(W)
       /\ MainData = PreMainData

\* C7: an empty or NULL message returns non-zero with errno EINVAL and
\* performs no file system operation at all, whatever the other arguments.
C7_EmptyMessageRejected ==
    (W.pc # "idle" /\ (W.arg_msg = NULL \/ W.arg_msg = <<>>))
    => /\ W.pc = "done"
       /\ W.ret # 0
       /\ W.errno = "EINVAL"
       /\ W.ops = <<>>
       /\ Untouched

\* an empty message was rejected with rotation and durable both enabled and
\* the log file absent
C7_Witness ==
    /\ W.pc = "done" /\ W.ret = 1 /\ W.errno = "EINVAL"
    /\ W.arg_msg = <<>>
    /\ W.file_path = LogPath
    /\ W.durable = FEATURE_ENABLED /\ W.max_bytes_config = FEATURE_ENABLED
    /\ ~Exists(names, LogPath)

\* C8: an empty file_path with a valid message returns non-zero with errno
\* EINVAL and changes nothing in the file system.
C8_EmptyPathRejected ==
    (W.pc = "done" /\ W.file_path = <<>> /\ W.arg_msg # NULL /\ Len(W.arg_msg) > 0 /\ ~W.faulted)
    => /\ W.ret # 0
       /\ W.errno = "EINVAL"
       /\ Untouched

\* C9: a call on a path that is a directory performs no system call but the
\* stat and changes nothing; once stat has reported the directory it returns
\* non-zero with errno EISDIR, rotation and durable enabled or not.
C9_DirectoryRejected ==
    ( /\ W.pc # "idle"
      /\ ValidCall(W)
      /\ Exists(pre[1].names, LogPath)
      /\ pre[1].inodes[pre[1].names[LogPath]].kind = "dir" )
    => /\ \A i \in DOMAIN W.ops : W.ops[i].op = "stat"
       /\ Untouched
       /\ (W.st_mode = "dir")
          => (W.pc = "done" /\ W.ret # 0 /\ W.errno = "EISDIR" /\ Len(W.ops) = 1)

\* a directory was rejected with rotation and durable both enabled
C9_Witness ==
    /\ W.pc = "done" /\ W.ret = 1 /\ W.errno = "EISDIR"
    /\ W.st_mode = "dir"
    /\ W.durable = FEATURE_ENABLED /\ W.max_bytes_config = FEATURE_ENABLED
    /\ Exists(names, BackupName(LogPath))

\* the type of the file the path named when the call started
PreKind == IF Exists(pre[1].names, LogPath)
           THEN pre[1].inodes[pre[1].names[LogPath]].kind ELSE "none"

\* C10 as claimed: when the path exists and is not a regular file (a
\* directory, but also a FIFO, socket or device node) the call returns an
\* error and never opens, writes or rotates the path (stated for the calls in
\* which no system call fails).
C10_NonRegularRejected ==
    (W.pc # "idle" /\ ValidCall(W) /\ PreKind \in {"dir", "other"} /\ ~W.faulted)
    => /\ OpNames(W) \cap {"open", "write", "unlink", "rename"} = {}
       /\ (W.pc = "done") => W.ret # 0

\* C10 as amended: only a directory is rejected by the file type check,
\* with EISDIR and without any open, write or rotation; a FIFO, socket or
\* device node passes the check and is opened and written like a regular
\* file, the call returning 0 when no system call fails.
C10_OnlyDirectoryRejected ==
    (W.pc # "idle" /\ ValidCall(W) /\ W.st_mode # "none")
    => /\ (W.st_mode = "dir")
          => /\ W.pc = "done" /\ W.ret # 0 /\ W.errno = "EISDIR"
             /\ OpNames(W) = {"stat"}
       /\ (W.st_mode = "other" /\ W.pc = "done" /\ ~W.faulted)
          => /\ W.ret = 0
             /\ \E i \in OpsAt(W, "open", W.file_path) : W.ops[i].ok
             /\ \E i \in OpsAt(W, "write", W.file_path) : W.ops[i].ok
             /\ EndsWith(MainData, W.log_buffer)

\* a call on a FIFO returned 0 after opening and writing it
C10_Witness ==
    /\ W.pc = "done" /\ W.ret = 0
    /\ W.st_mode = "other"
    /\ PreKind = "other"
    /\ "write" \in OpNames(W)
    /\ inodes[names[LogPath]].kind = "other"

\* the message field the specification prescribes for a message
Logged(m) == IF Len(m) <= 256 THEN m
             ELSE SubSeq(m, 1, 253) \o <<".", ".", ".">>

\* C11: a message of at most 256 bytes is logged verbatim and a longer one
\* as its first 253 bytes followed by "...", a message field of exactly 256
\* bytes; the buffer the caller passed is still what the caller passed.
C11_Truncation ==
    (W.pc # "idle" /\ ValidCall(W))
    => /\ W.arg_msg \in TruncMsgArgs
       /\ (W.log_len > 0) =>
          /\ W.msg = Logged(W.arg_msg)
          /\ W.log_buffer = Line(W.time_ns, PidOf(1), Logged(W.arg_msg))
          /\ Len(W.arg_msg) > 256 => Len(W.msg) = 256
       /\ (W.pc = "done" /\ W.ret = 0)
          => EndsWith(MainData, Line(W.time_ns, PidOf(1), Logged(W.arg_msg)))

\* a 300-byte message was appended as 253 of its bytes and the marker
C11_Witness ==
    /\ W.pc = "done" /\ W.ret = 0
    /\ Len(W.arg_msg) = 300
    /\ Len(W.msg) = 256
    /\ SubSeq(W.msg, 1, 253) = SubSeq(W.arg_msg, 1, 253)
    /\ SubSeq(W.msg, 254, 256) = <<".", ".", ".">>
    /\ EndsWith(MainData, W.msg \o <<"]", "\n">>)

\* stat reported that the path names nothing
AbsentAtStat(r) ==
    /\ Len(r.ops) >= 1 /\ r.ops[1].op = "stat" /\ ~r.faulted
    /\ r.st_mode = "none" /\ r.stat1_errno = "ENOENT"

\* the backup as the call found it
PreBackupData == FileData(pre[1].names, pre[1].inodes, BackupName(LogPath))

\* C12: with rotation enabled and the target absent at the stat step the
\* call unlinks and renames nothing, leaves an existing backup as it was, and
\* (no system call failing) creates the file with the entry, also when the
\* entry alone is longer than max_byte_val.
C12_NoRotationWhenAbsent ==
    (W.pc # "idle" /\ ValidCall(W) /\ W.max_bytes_config = FEATURE_ENABLED
     /\ AbsentAtStat(W))
    => /\ OpNames(W) \cap {"unlink", "rename"} = {}
       /\ ~W.rotated
       /\ names[BackupName(LogPath)] = pre[1].names[BackupName(LogPath)]
       /\ BackupData = PreBackupData
       /\ (W.pc = "done")
          => /\ W.ret = 0
             /\ Exists(names, LogPath)
             /\ MainData = Line(W.time_ns, PidOf(1), W.arg_msg)

\* an entry longer than max_byte_val created the log and the backup that
\* existed is still there
C12_Witness ==
    /\ W.pc = "done" /\ W.ret = 0
    /\ W.max_bytes_config = FEATURE_ENABLED
    /\ AbsentAtStat(W)
    /\ W.log_len > W.max_byte_val
    /\ PreBackupData # <<>>
    /\ BackupData = PreBackupData
    /\ MainData = W.log_buffer

\* the backup name the specification prescribes
DotOne == LogPath \o <<".", "1">>

\* C13: whatever calls are made on the path, the directory entries other
\* than the path and "<path>.1" and the files they name stay as they were;
\* every system call of a call on the path names the path, "<path>.1" (and
\* then it is the unlink) or the parent directory (opened, synced and
\* closed only); with rotation disabled "<path>.1" is not touched.
C13_OnlyPathAndBackup ==
    /\ \A n \in DOMAIN names \ {LogPath, DotOne} :
          /\ names[n] = pre[1].names[n]
          /\ FileData(names, inodes, n) = FileData(pre[1].names, pre[1].inodes, n)
    /\ (W.file_path = LogPath)
       => \A i \in DOMAIN W.ops :
             \/ W.ops[i].path = LogPath
                /\ W.ops[i].op \in {"stat", "rename", "open", "fstat", "write",
                                     "fdatasync", "close"}
             \/ W.ops[i].path = DotOne /\ W.ops[i].op = "unlink"
             \/ W.ops[i].path = LogDir /\ W.ops[i].op \in {"open", "fsync", "close"}
    /\ (W.pc # "idle" /\ W.max_bytes_config = FEATURE_DISABLED)
       => /\ Lookup(names, DotOne) = Lookup(pre[1].names, DotOne)
          /\ FileData(names, inodes, DotOne)
             = FileData(pre[1].names, pre[1].inodes, DotOne)
          /\ \A i \in DOMAIN W.ops : W.ops[i].path # DotOne

\* a rotation replaced the backup and the older file beside the log is as
\* it was
C13_Witness ==
    /\ W.pc = "done" /\ W.ret = 0 /\ W.rotated
    /\ Exists(pre[1].names, DotOne)
    /\ Lookup(names, DotOne) = Lookup(pre[1].names, LogPath)
    /\ Exists(names, OlderName)
    /\ FileData(names, inodes, OlderName) = <<"s", "\n">>
    /\ Cardinality({n \in DOMAIN names : names[n] # 0}) = 3

\* the descriptors the call has opened and not closed, counted on its trace
OpenCount(r) ==
    Cardinality({i \in DOMAIN r.ops : r.ops[i].op = "open" /\ r.ops[i].ok})
    - Cardinality({i \in DOMAIN r.ops : r.ops[i].op = "close"})

\* C14: on every return, successful or not, every descriptor the call
\* opened (the log file's and the parent directory's) has been closed.
C14_NoDescriptorLeak ==
    /\ (W.pc = "done") => (W.fd = 0 /\ ~W.fd_dir /\ OpenCount(W) = 0)
    /\ OpenCount(W) = (IF W.fd # 0 THEN 1 ELSE 0) + (IF W.fd_dir THEN 1 ELSE 0)

\* a durable append failed in the directory sync that follows fdatasync,
\* with both descriptors open, and returned with both closed
C14_Witness ==
    /\ W.pc = "done" /\ W.ret = 1
    /\ W.site = "dur"
    /\ \E i \in OpsAt(W, "fsync", LogDir) : ~W.ops[i].ok
    /\ Cardinality(OpsAt(W, "close", LogDir)) = 1
    /\ Cardinality(OpsAt(W, "close", LogPath)) = 1
    /\ W.fd = 0 /\ ~W.fd_dir

\* C15 as claimed: at every point of a call at most one descriptor is open;
\* the log descriptor and the parent directory descriptor are never open
\* at the same time.
C15_OneDescriptor ==
    /\ ~(W.fd # 0 /\ W.fd_dir)
    /\ OpenCount(W) <= 1

\* C15 as amended: at most two descriptors are open, at most one of each
\* kind; the two are open together only in a durable append, during the
\* parent directory sync that follows the successful fdatasync of the
\* written entry; during the directory sync of a rotation the log
\* descriptor is not open.
C15_TwoOnlyInDurableSync ==
    /\ OpenCount(W) <= 2
    /\ W.fd_dir => W.pc \in {"dir_fsync", "dir_close", "dir_errclose"}
    /\ (W.fd_dir /\ W.site = "rot") => W.fd = 0
    /\ (W.fd # 0 /\ W.fd_dir)
       => /\ W.durable = FEATURE_ENABLED
          /\ W.site = "dur"
          /\ W.total = W.log_len
          /\ \E i \in OpsAt(W, "fdatasync", W.file_path) : W.ops[i].ok

\* both descriptors are open during the directory sync of a durable append
C15_Witness ==
    /\ W.pc = "dir_fsync" /\ W.site = "dur"
    /\ W.fd # 0 /\ W.fd_dir
    /\ OpenCount(W) = 2

\* a failure the code goes on after: stat or unlink finding nothing, an
\* interrupted write
Ignored(o) ==
    \/ o.op \in {"stat", "unlink"} /\ o.err = "ENOENT"
    \/ o.op = "write" /\ o.err = "EINTR"

\* the positions in the call's trace of the failures that end the call
Causes(r) == {i \in DOMAIN r.ops : ~r.ops[i].ok /\ ~Ignored(r.ops[i])}

\* the first of them
FirstCause(r) == CHOOSE i \in Causes(r) : \A j \in Causes(r) : i <= j

\* C16: a return is 0 or 1; it is 1 exactly when a step failed, with errno
\* the errno of the first failing system call, or EINVAL, EISDIR, EOVERFLOW
\* or ENAMETOOLONG when a check of the code failed; the close of an error
\* path, failing or not, does not replace it.
C16_FirstFailureErrno ==
    (W.pc = "done")
    => /\ W.ret \in {0, 1}
       /\ (W.ret = 0) => Causes(W) = {}
       /\ (W.ret = 1 /\ Causes(W) # {})
          => /\ W.errno = W.ops[FirstCause(W)].err
             /\ \A i \in Causes(W) :
                   i # FirstCause(W) => (W.ops[i].op = "close" /\ i > FirstCause(W))
       /\ (W.ret = 1 /\ Causes(W) = {})
          => \/ W.errno = "EINVAL" /\ W.ops = <<>>
             \/ W.errno = "EISDIR" /\ W.st_mode = "dir"
             \/ W.errno = "EOVERFLOW" /\ W.log_len >= SMARTLOG_LOG_BUFFER_SZ
             \/ W.errno = "ENAMETOOLONG"

\* fdatasync failed and the close of the error path failed as well; the
\* call returned 1 with the errno of fdatasync
C16_Witness ==
    /\ W.pc = "done" /\ W.ret = 1 /\ W.errno = "EIO"
    /\ \E i \in OpsAt(W, "fdatasync", LogPath) : ~W.ops[i].ok
    /\ \E i \in OpsAt(W, "close", LogPath) : ~W.ops[i].ok /\ W.ops[i].err = "EDQUOT"

\* C17: mini_log exits with a non-zero status whenever it fails: on a wrong
\* argument count, an unknown option, a missing or non-positive --max-bytes
\* value, an empty message, and on every failing step of the append.
C17_CliFailureExit ==
    (cli.pc = "exit" /\ cli.failed) => cli.status # 0

\* the system call at position i of the trace is name(path) and succeeded
OkAt(r, i, name, path) ==
    /\ i \in DOMAIN r.ops
    /\ r.ops[i].op = name /\ r.ops[i].path = path /\ r.ops[i].ok

\* C18: a durable append that returns 0 ends with the last write of the
\* entry, fdatasync of the log, the open, fsync and close of the parent
\* directory, and the close of the log, in this order; no write follows an
\* fdatasync; after a failed fdatasync the parent directory is not synced;
\* with durable disabled the call issues no fdatasync and no fsync.
C18_DurableOrder ==
    LET n == Len(W.ops)
    IN  /\ (W.pc = "done" /\ W.ret = 0 /\ W.durable = FEATURE_ENABLED)
           => /\ W.total = W.log_len
              /\ OkAt(W, n - 5, "write", W.file_path)
              /\ OkAt(W, n - 4, "fdatasync", W.file_path)
              /\ OkAt(W, n - 3, "open", LogDir)
              /\ OkAt(W, n - 2, "fsync", LogDir)
              /\ OkAt(W, n - 1, "close", LogDir)
              /\ OkAt(W, n, "close", W.file_path)
              /\ Cardinality(OpsAt(W, "fdatasync", W.file_path)) = 1
        /\ \A i \in OpsAt(W, "fdatasync", W.file_path) :
              /\ \A k \in OpsAt(W, "write", W.file_path) : k < i
              /\ ~W.ops[i].ok
                 => \A j \in DOMAIN W.ops :
                       j > i => (W.ops[j].op = "close" /\ W.ops[j].path = W.file_path)
        /\ (W.pc # "idle" /\ W.durable = FEATURE_DISABLED)
           => OpNames(W) \cap {"fdatasync", "fsync"} = {}

\* a durable append whose entry took two writes returned 0
C18_Witness ==
    /\ W.pc = "done" /\ W.ret = 0 /\ W.durable = FEATURE_ENABLED
    /\ Cardinality({i \in OpsAt(W, "write", LogPath) : W.ops[i].ok}) = 2
    /\ OkAt(W, Len(W.ops) - 4, "fdatasync", LogPath)
    /\ OkAt(W, Len(W.ops) - 2, "fsync", LogDir)

\* the directory sync of a rotation failed
RotationSyncFailed(r) ==
    /\ r.site = "rot" /\ r.pc = "done" /\ ~r.rotated
    /\ \E j \in OpsAt(r, "rename", r.file_path) : r.ops[j].ok

\* C19: in a durable append that rotates, the rename is followed at once
\* by the open, fsync and close of the parent directory, and the log is
\* opened only after them; when that sync fails the call returns an error
\* and the new log is neither created nor written.
C19_RotationSyncBeforeCreate ==
    (W.durable = FEATURE_ENABLED)
    => /\ \A j \in OpsAt(W, "rename", W.file_path) :
             W.ops[j].ok
             => /\ \A i \in OpsAt(W, "open", W.file_path) \cup OpsAt(W, "write", W.file_path) :
                      /\ i > j + 3
                      /\ OkAt(W, j + 1, "open", LogDir)
                      /\ OkAt(W, j + 2, "fsync", LogDir)
                      /\ OkAt(W, j + 3, "close", LogDir)
                /\ (j + 1 \in DOMAIN W.ops) => (W.ops[j + 1].op = "open" /\ W.ops[j + 1].path = LogDir)
                /\ (W.pc = "open") => Lookup(disk_names, BackupName(LogPath)) = Lookup(names, BackupName(LogPath))
       /\ RotationSyncFailed(W)
          => /\ W.ret = 1
             /\ OpsAt(W, "open", W.file_path) \cup OpsAt(W, "write", W.file_path) = {}
             /\ ~Exists(names, LogPath)
             /\ BackupData = PreMainData

\* the fsync of the parent directory failed after the rename of a durable
\* append; the call returned 1 and there is no log
C19_Witness ==
    /\ RotationSyncFailed(W)
    /\ W.durable = FEATURE_ENABLED
    /\ \E k \in OpsAt(W, "fsync", LogDir) : ~W.ops[k].ok
    /\ W.ret = 1 /\ W.errno = "EIO"
    /\ ~Exists(names, LogPath)
    /\ BackupData = PreMainData

\* smartlog_write_all has returned 0
WriteAllReturned(r) == r.pc = "close"

\* C20: under every schedule of short counts and EINTR results, the bytes
\* that have reached the descriptor are the first total bytes of the
\* buffer, in order, after what the file held; an EINTR result leaves
\* total and the file as they were; when smartlog_write_all returns 0 the
\* whole buffer, and nothing else, has been appended.
C20_WriteAllExact ==
    /\ W.total \in 0..W.log_len
    /\ MainData = PreMainData \o SubSeq(W.log_buffer, 1, W.total)
    /\ WriteAllReturned(W)
       => /\ W.total = W.log_len
          /\ MainData = PreMainData \o W.log_buffer
    /\ (W.pc = "write" /\ W.total > 0) => \E i \in DOMAIN W.ops : W.ops[i].ok

\* smartlog_write_all returned 0 after two short writes and an interrupt
\* between them
C20_Witness ==
    /\ WriteAllReturned(W)
    /\ Len(W.ops) = 4
    /\ W.ops[1].ok /\ W.ops[2].err = "EINTR" /\ W.ops[3].ok /\ W.ops[4].ok
    /\ PreMainData # <<>>
    /\ MainData = PreMainData \o <<"a", "b", "c", "d">>

\* smartlog_write_all has returned -1
WriteAllFailed(r) == r.pc = "errclose"

\* the write() recorded last
LastOp(r) == r.ops[Len(r.ops)]

\* C21: a write() that returns 0 while bytes remain makes
\* smartlog_write_all return -1 with errno EIO at once, and a write() that
\* fails with an errno other than EINTR makes it return -1 at once with that
\* errno; no write is issued after either, and the loop goes on only after a
\* positive count or EINTR.
C21_ZeroAndFailureEndLoop ==
    /\ \A i \in DOMAIN W.ops :
          (~W.ops[i].ok /\ W.ops[i].err # "EINTR") => i = Len(W.ops)
    /\ (W.ops # <<>> /\ ~LastOp(W).ok /\ LastOp(W).err # "EINTR")
       => /\ WriteAllFailed(W)
          /\ W.bytes_written \in {0, -1}
          /\ W.errno = LastOp(W).err
          /\ W.total < W.log_len
    /\ (W.ops # <<>> /\ W.bytes_written = 0 /\ ~WriteAllReturned(W))
       => (WriteAllFailed(W) /\ W.errno = "EIO")
    /\ (W.ops # <<>> /\ W.pc = "write")
       => \/ W.bytes_written > 0 /\ LastOp(W).ok
          \/ W.bytes_written = -1 /\ W.errno = "EINTR"
    /\ WriteAllFailed(W) => (~LastOp(W).ok /\ LastOp(W).err # "EINTR")

\* a write() returned 0 after a short write and an interrupt;
\* smartlog_write_all returned -1 with errno EIO in place of EINTR
C21_Witness ==
    /\ WriteAllFailed(W)
    /\ W.bytes_written = 0 /\ W.errno = "EIO"
    /\ Len(W.ops) = 3
    /\ W.ops[1].ok /\ W.ops[2].err = "EINTR" /\ ~W.ops[3].ok
    /\ W.total \in 1..(W.log_len - 1)

\* C22: every iteration of the loop of smartlog_write_all whose write() is
\* not interrupted returns or strictly increases total, which stays at most
\* msg_length; an interrupted iteration leaves total and the file as they
\* were and the loop running, so that an unbounded run of EINTR results
\* never returns; when write() is interrupted only finitely many times in a
\* row the loop returns.
C22_WriteAllTerminates ==
    /\ [][ (W.pc = "write")
           => \/ loc'[1].pc # "write"
              \/ /\ loc'[1].bytes_written > 0
                 /\ loc'[1].total > W.total
                 /\ loc'[1].total < W.log_len
              \/ /\ loc'[1].bytes_written < 0 /\ loc'[1].errno = "EINTR"
                 /\ loc'[1].pc = "write"
                 /\ loc'[1].total = W.total
                 /\ inodes' = inodes ]_vars
    /\ [](W.total <= W.log_len)
    /\ (W.pc = "write") ~> (W.pc # "write")

\* the loop returned 0 with the whole buffer written after an interrupted
\* write
C22_Witness ==
    /\ WriteAllReturned(W)
    /\ W.errno = "EINTR"
    /\ W.total = W.log_len
    /\ MainData = PreMainData \o W.log_buffer

\* the content of the log when the call opened it: what the call found, or
\* nothing after a rotation or when the path named nothing
OpenedData == IF W.rotated THEN <<>> ELSE PreMainData

\* the positions in the trace of the writes that ended smartlog_write_all
\* with -1
FailedWrites(r) ==
    {i \in OpsAt(r, "write", r.file_path) : ~r.ops[i].ok /\ r.ops[i].err # "EINTR"}

\* C23: when write() fails for good (or returns 0) after k > 0 bytes of the
\* entry were transferred, the call issues nothing but the close of the
\* descriptor after it (no further write, no truncation, no sync) and
\* returns 1 with the errno of the write; the file holds what it held when
\* it was opened followed by the first k bytes of the entry.
C23_PartialWriteStays ==
    \A i \in FailedWrites(W) :
       (W.total > 0)
       => /\ W.pc \in {"errclose", "done"}
          /\ W.total < W.log_len
          /\ MainData = OpenedData \o SubSeq(W.log_buffer, 1, W.total)
          /\ \A j \in DOMAIN W.ops :
                j > i => (j = i + 1 /\ W.ops[j].op = "close" /\ W.ops[j].path = W.file_path)
          /\ (W.pc = "done")
             => /\ W.ret = 1
                /\ W.errno = W.ops[i].err
                /\ W.fd = 0
                /\ Len(W.ops) = i + 1

\* a write failed with ENOSPC after a short write; the call returned 1 and
\* the file ends with the first bytes of the entry after its old content
C23_Witness ==
    /\ W.pc = "done" /\ W.ret = 1 /\ W.errno = "ENOSPC"
    /\ FailedWrites(W) # {}
    /\ W.total = MaxShort
    /\ PreMainData # <<>>
    /\ MainData = PreMainData \o SubSeq(W.log_buffer, 1, W.total)
    /\ ~EndsWith(MainData, <<"\n">>)

\* the position in the trace of the last write of the call, 0 when there is
\* none
LastWrite(r) ==
    IF OpsAt(r, "write", r.file_path) = {} THEN 0
    ELSE CHOOSE i \in OpsAt(r, "write", r.file_path) :
            \A j \in OpsAt(r, "write", r.file_path) : j <= i

\* the positions of the system calls that failed after the entry was written
\* whole: fdatasync, the open, fsync or close of the parent directory, a
\* close of the log
LateFailures(r) ==
    IF r.total # r.log_len THEN {}
    ELSE LET last == LastWrite(r)
         IN  IF last = 0 THEN {}
             ELSE {i \in (last + 1)..Len(r.ops) : ~r.ops[i].ok}

\* C24: when fdatasync, the sync of the parent directory or the final close
\* fails after the entry was written whole, the call returns 1 with the
\* errno of that step although the complete entry is at the end of the
\* file; a call that returns 0 has had none of its steps after the write
\* fail.
C24_LateFailureReported ==
    (W.pc = "done")
    => LET late == LateFailures(W)
       IN  /\ (late # {})
              => /\ W.ret = 1
                 /\ \E i \in late :
                       /\ \A j \in late : i <= j
                       /\ W.errno = W.ops[i].err
                 /\ W.fd = 0 /\ ~W.fd_dir
                 /\ EndsWith(MainData, Line(W.time_ns, PidOf(1), W.arg_msg))
           /\ (W.ret = 0)
              => /\ late = {}
                 /\ \A i \in DOMAIN W.ops :
                       W.ops[i].op \in {"fdatasync", "fsync", "close"} => W.ops[i].ok

\* the final close of a durable append failed; the call returned 1 and the
\* entry is at the end of the file in the volatile view and on stable
\* storage
C24_Witness ==
    /\ W.pc = "done" /\ W.ret = 1 /\ W.errno = "EDQUOT"
    /\ W.durable = FEATURE_ENABLED
    /\ LateFailures(W) = {Len(W.ops)}
    /\ LastOp(W).op = "close" /\ LastOp(W).path = LogPath
    /\ PreMainData # <<>>
    /\ MainData = PreMainData \o W.log_buffer
    /\ DiskData(LogPath) = MainData

\* the positions in the trace of the system calls that change the file
\* system: unlink, rename, and the open of the log with O_CREAT
Mutating(r) ==
    {i \in DOMAIN r.ops :
        \/ r.ops[i].op \in {"unlink", "rename"}
        \/ r.ops[i].op = "open" /\ r.ops[i].path = r.file_path}

\* C25: the argument checks, the stat of the path and the formatting of the
\* entry are complete before the first unlink, rename or open of the log; up
\* to there the main file, the backup and the directory are as the call
\* found them, and a call that fails there (invalid arguments, a directory,
\* a stat error other than ENOENT, returned with the errno of stat, an entry
\* that does not fit) returns 1 and leaves them so.
C25_ChecksBeforeMutation ==
    LET mutating == Mutating(W)
    IN
    /\ (mutating # {} \/ W.pc \in {"unlink", "rename", "open"})
       => /\ ~ArgsInvalid(W.file_path, W.arg_msg)
          /\ Len(W.ops) >= 1 /\ W.ops[1].op = "stat"
          /\ W.ops[1].ok \/ W.ops[1].err = "ENOENT"
          /\ \A i \in mutating : i > 1
          /\ W.log_len > 0 /\ W.log_len < SMARTLOG_LOG_BUFFER_SZ
          /\ W.log_buffer = FormatEntry(W.time_ns, PidOf(1), W.msg)
    /\ (W.pc \in {"stat", "format", "rotate"}) => (mutating = {} /\ Untouched)
    /\ (W.pc = "done" /\ mutating = {})
       => /\ W.ret = 1
          /\ Untouched
    /\ (Len(W.ops) >= 1 /\ ~W.ops[1].ok /\ W.ops[1].err # "ENOENT")
       => /\ W.pc = "done" /\ W.ret = 1
          /\ W.errno = W.ops[1].err
          /\ Len(W.ops) = 1
          /\ Untouched

\* stat failed with EACCES on a path that names a file, rotation and durable
\* enabled; the call returned 1 with that errno and the file and the backup
\* are as before
C25_Witness ==
    /\ W.pc = "done" /\ W.ret = 1 /\ W.errno = "EACCES"
    /\ ValidCall(W)
    /\ W.durable = FEATURE_ENABLED /\ W.max_bytes_config = FEATURE_ENABLED
    /\ W.ops = <<[op |-> "stat", path |-> LogPath, ok |-> FALSE, err |-> "EACCES"]>>
    /\ Exists(names, LogPath) /\ Exists(names, BackupName(LogPath))
    /\ Untouched

\* the rotation of the call is due: rotation is enabled, stat found a file
\* and the entry does not fit under max_byte_val
Due(r) ==
    /\ r.pc \notin {"idle", "stat", "format", "rotate"} /\ r.log_len > 0
    /\ r.max_bytes_config = FEATURE_ENABLED
    /\ r.st_mode # "none"
    /\ r.st_size + r.log_len > r.max_byte_val

\* the opens and writes of the main path in the trace of the call
MainOpens(r) == OpsAt(r, "open", r.file_path) \cup OpsAt(r, "write", r.file_path)

\* the file the path names is the one it named when the call started, with
\* the same content
MainAsBefore(r) ==
    /\ Lookup(names, r.file_path) = Lookup(pre[1].names, r.file_path)
    /\ FileData(names, inodes, r.file_path)
       = FileData(pre[1].names, pre[1].inodes, r.file_path)

\* C26: a due rotation whose backup name does not fit in 4096 bytes, whose
\* unlink of the old backup fails with an errno other than ENOENT, whose
\* rename fails or whose durable directory sync fails ends the call with 1
\* and the errno of that step, and the main path is never opened or written
\* in that call; an unlink that finds no old backup (ENOENT) is followed by
\* the rename.
C26_RotationFailureAborts ==
    /\ (Due(W) /\ StrLen(W.file_path) + 2 >= 4096)
       => /\ W.pc = "done" /\ W.ret = 1 /\ W.errno = "ENAMETOOLONG"
          /\ OpNames(W) = {"stat"}
          /\ Untouched
    /\ (Due(W) /\ StrLen(W.file_path) + 2 < 4096)
       => /\ W.pc = "unlink" \/ (Len(W.ops) >= 2 /\ W.ops[2].op = "unlink")
          /\ \A i \in DOMAIN W.ops :
                W.ops[i].op = "unlink" => W.ops[i].path = W.file_path \o <<".", "1">>
    /\ \A i \in DOMAIN W.ops :
          /\ (W.ops[i].op = "unlink" /\ ~W.ops[i].ok /\ W.ops[i].err # "ENOENT")
             => /\ W.pc = "done" /\ W.ret = 1 /\ W.errno = W.ops[i].err
                /\ Len(W.ops) = i
                /\ MainAsBefore(W)
          /\ (W.ops[i].op = "unlink" /\ (W.ops[i].ok \/ W.ops[i].err = "ENOENT"))
             => \/ W.pc = "rename" /\ Len(W.ops) = i
                \/ i + 1 \in DOMAIN W.ops /\ W.ops[i + 1].op = "rename"
          /\ (W.ops[i].op = "rename" /\ ~W.ops[i].ok)
             => /\ W.pc = "done" /\ W.ret = 1 /\ W.errno = W.ops[i].err
                /\ Len(W.ops) = i
                /\ MainAsBefore(W)
    /\ RotationSyncFailed(W)
       => /\ W.ret = 1
          /\ \E i \in DOMAIN W.ops : ~W.ops[i].ok /\ W.ops[i].path = ParentDir(W.file_path)
                                     /\ W.errno = W.ops[i].err
    /\ (Due(W) /\ W.pc = "done" /\ ~W.rotated) => (W.ret = 1 /\ MainOpens(W) = {})
    /\ (Due(W) /\ (MainOpens(W) # {} \/ W.pc = "open")) => W.rotated

\* a call on a path of 4094 bytes with a due rotation returned 1 with
\* ENAMETOOLONG after the stat alone; the file is as it was
C26_Witness ==
    /\ W.pc = "done" /\ W.ret = 1 /\ W.errno = "ENAMETOOLONG"
    /\ Len(W.file_path) = 4094
    /\ Due(W)
    /\ W.ops = <<Op("stat", W.file_path)>>
    /\ FileData(names, inodes, W.file_path) = <<"z", "\n">>

\* the inode the main path named when the call started
PreMainIno == Lookup(pre[1].names, LogPath)

\* C27: from the decision to rotate to the return of the call, the file
\* the main path named before the call keeps its content and is named by
\* exactly one of "<path>" and "<path>.1" (by "<path>.1" exactly from the
\* successful rename on); "<path>.1" names nothing, the old backup or that
\* file, each with its whole content, and never the file the call writes.
C27_RotationAtomic ==
    Due(W)
    => LET bak == W.file_path \o <<".", "1">>
           atMain == Lookup(names, W.file_path) = PreMainIno
           atBak == Lookup(names, bak) = PreMainIno
           renamed == \E i \in OpsAt(W, "rename", W.file_path) : W.ops[i].ok
       IN  /\ PreMainIno # 0
           /\ atMain # atBak
           /\ atBak <=> renamed
           /\ inodes[PreMainIno].data = PreMainData
           /\ Lookup(names, bak) \in {0, Lookup(pre[1].names, bak), PreMainIno}
           /\ Exists(names, bak)
              => FileData(names, inodes, bak) \in {PreBackupData, PreMainData}
           /\ (W.fd # 0) => (W.fd # Lookup(names, bak) /\ W.fd # PreMainIno)
           /\ (MainOpens(W) # {}) => atBak

\* the new log holds the first bytes of the entry only, the backup holds
\* the whole content the log had before the call, and the backup that
\* existed before is gone
C27_Witness ==
    /\ Due(W) /\ W.pc = "write"
    /\ W.total \in 1..(W.log_len - 1)
    /\ MainData = SubSeq(W.log_buffer, 1, W.total)
    /\ PreMainData # <<>>
    /\ BackupData = PreMainData
    /\ PreBackupData # <<>> /\ PreBackupData # PreMainData

\* the content of the log before either of two concurrent calls started
BaseData ==
    LET a == FileData(pre[1].names, pre[1].inodes, LogPath)
        b == FileData(pre[2].names, pre[2].inodes, LogPath)
    IN  IF Len(a) <= Len(b) THEN a ELSE b

RECURSIVE MergeFront(_, _, _, _, _)
\* S holds the i for which the first k - 1 bytes of c are the first i bytes
\* of a and the first k - 1 - i bytes of b, interleaved with the order of
\* each kept; the result holds them for the whole of c
MergeFront(a, b, c, k, S) ==
    IF k > Len(c) THEN S
    ELSE LET T == {i \in S \cup {j + 1 : j \in S} :
                     /\ i <= Len(a)
                     /\ k - i \in 0..Len(b)
                     /\ \/ i >= 1 /\ (i - 1) \in S /\ a[i] = c[k]
                        \/ k - i >= 1 /\ i \in S /\ b[k - i] = c[k]}
         IN  IF T = {} THEN {} ELSE MergeFront(a, b, c, k + 1, T)

\* c holds the bytes of a and of b and no others, each in its order
IsMerge(a, b, c) ==
    /\ Len(c) = Len(a) + Len(b)
    /\ Len(a) \in MergeFront(a, b, c, 1, {0})

\* the line of the call of process p
LineOf(p) == Line(loc[p].time_ns, PidOf(p), loc[p].arg_msg)

\* the successful writes in the trace of a call
OkWrites(r) == {i \in OpsAt(r, "write", r.file_path) : r.ops[i].ok}

\* t holds s as a run of consecutive bytes
Holds(t, s) == \E k \in 0..(Len(t) - Len(s)) : SubSeq(t, k + 1, k + Len(s)) = s

\* C28: two processes append to the same path with rotation disabled and no
\* system call failing.  At every point of every interleaving the file
\* holds what it held before followed by as many bytes as the two have
\* written, none overwritten; when both have returned both returned 0 and
\* the file holds the bytes of both entries, each in its order, after its
\* old content; an entry transferred by a single write() is one contiguous
\* line, and when both were the file is the old content and the two lines
\* in one of the two orders.
C28_ConcurrentAppend ==
    LET P1 == loc[1]
        P2 == loc[2]
        added == SubSeq(MainData, Len(BaseData) + 1, Len(MainData))
    IN  /\ Len(MainData) = Len(BaseData) + P1.total + P2.total
        /\ SubSeq(MainData, 1, Len(BaseData)) = BaseData
        /\ \A p \in Procs : (loc[p].pc = "done") => loc[p].ret = 0
        /\ (P1.pc = "done" /\ P2.pc = "done")
           => /\ Lookup(names, LogPath) # 0
              /\ IsMerge(LineOf(1), LineOf(2), added)
              /\ \A p \in Procs :
                    Cardinality(OkWrites(loc[p])) = 1 => Holds(added, LineOf(p))
              /\ (Cardinality(OkWrites(P1)) = 1 /\ Cardinality(OkWrites(P2)) = 1)
                 => added \in {LineOf(1) \o LineOf(2), LineOf(2) \o LineOf(1)}

\* both processes found the path absent, both returned 0, and the file is
\* the line of process 2 followed by the line of process 1
C28_Witness ==
    /\ loc[1].pc = "done" /\ loc[2].pc = "done"
    /\ loc[1].ret = 0 /\ loc[2].ret = 0
    /\ AbsentAtStat(loc[1]) /\ AbsentAtStat(loc[2])
    /\ MainData = LineOf(2) \o LineOf(1)
    /\ Newlines(MainData) = 2

\* the inode the main path named before either of two concurrent calls
\* started
OldMainIno ==
    LET S == {Lookup(pre[p].names, LogPath) : p \in Procs} \ {0}
    IN  CHOOSE i \in S : \A j \in S : i <= j

\* the content the log had before the calls is under neither name
OldContentLost ==
    /\ Lookup(names, LogPath) # OldMainIno
    /\ Lookup(names, DotOne) # OldMainIno

\* the call decided to rotate the file the path named before the calls
RotatesOld(r) == Due(r) /\ r.st_ino = OldMainIno

\* the call has a successful rename, a successful unlink, a rename that
\* found no file
RenameOk(r) == \E i \in OpsAt(r, "rename", LogPath) : r.ops[i].ok
UnlinkOk(r) == \E i \in OpsAt(r, "unlink", DotOne) : r.ops[i].ok
RenameNoEnt(r) == \E i \in OpsAt(r, "rename", LogPath) : r.ops[i].err = "ENOENT"

\* C29: with two processes appending to one path with rotation enabled,
\* the stat-then-rotate race is the way the old content is lost or a rename
\* fails.  A rename fails with ENOENT only in a call that decided to rotate
\* the same file as the other call, which renamed it first, and that call
\* returns 1; the old content is under neither name only after both calls
\* decided to rotate, one of them the old file, and the backup holding it
\* was unlinked or replaced by the other; a call that finds the path absent
\* or is alone in rotating loses nothing.  (That the race happens is the
\* reachable state C29_Witness.)
C29_RotationRace ==
    /\ \A p \in Procs :
          LET q == 3 - p
          IN  /\ RenameNoEnt(loc[p])
                 => /\ RotatesOld(loc[p]) /\ RotatesOld(loc[q])
                    /\ RenameOk(loc[q])
                    /\ loc[p].pc = "done" /\ loc[p].ret = 1 /\ loc[p].errno = "ENOENT"
                    /\ MainOpens(loc[p]) = {}
              /\ (loc[p].pc = "done" /\ loc[p].ret # 0) => RenameNoEnt(loc[p])
    /\ OldContentLost
       => /\ Due(loc[1]) /\ Due(loc[2])
          /\ \E p \in Procs :
                /\ RotatesOld(loc[p]) /\ RenameOk(loc[p])
                /\ UnlinkOk(loc[3 - p]) \/ RenameOk(loc[3 - p])
    /\ (\E p \in Procs : ~Due(loc[p])) => ~OldContentLost

\* both calls decided to rotate from the same stat result and both
\* returned 0; the second unlink removed the fresh backup: the content the
\* log had is in neither the log nor the backup
C29_Witness ==
    /\ loc[1].pc = "done" /\ loc[2].pc = "done"
    /\ loc[1].ret = 0 /\ loc[2].ret = 0
    /\ RotatesOld(loc[1]) /\ RotatesOld(loc[2])
    /\ loc[1].st_size = loc[2].st_size
    /\ OldContentLost
    /\ MainData # <<"x", "\n">> /\ BackupData # <<"x", "\n">>
    /\ inodes[OldMainIno].kind = "free"

\* one of two calls that decided to rotate from the same stat result failed
\* in rename with ENOENT
C29_RenameFails ==
    /\ loc[1].pc = "done" /\ loc[2].pc = "done"
    /\ loc[1].ret = 0 /\ loc[2].ret = 1 /\ loc[2].errno = "ENOENT"
    /\ RotatesOld(loc[1]) /\ RotatesOld(loc[2])
    /\ RenameNoEnt(loc[2])

\* a single writer with a rotation limit below the size of one entry and
\* one that the 2-byte log and a 32-byte entry fill exactly; the log is absent or holds two bytes at first, its backup
\* may exist
SizeByteVals == {10, 34}

InitSize ==
    /\ \E main \in {<<>>, <<[kind |-> "reg", data |-> <<"x", "\n">>]>>},
          bak \in {<<>>, <<[kind |-> "reg", data |-> <<"o", "\n">>]>>} :
         /\ inodes = main \o bak
         /\ names = [n \in AllNames |->
                       IF n = LogPath THEN Len(main)
                       ELSE IF n = BackupName(LogPath)
                       THEN (IF bak = <<>> THEN 0 ELSE Len(main) + 1)
                       ELSE 0]
    /\ disk_names = names
    /\ disk_data = [i \in DOMAIN inodes |-> inodes[i].data]
    /\ fake_clock_fail = FALSE
    /\ loc = [p \in Procs |-> IdleLoc]
    /\ pre = [p \in Procs |-> [names |-> names, inodes |-> inodes]]
    /\ hist = NoHist(names, inodes)
    /\ calls = 0
    /\ faults = 0
    /\ cli = CliIdle

CallSize(p) == CallWith(p, {LogPath}, {<<"a">>, <<"b", "c">>}, SizeByteVals)

NextSize ==
    \/ CallSize(1) \/ Stat(1) \/ Format(1)
    \/ RotateDecide(1) \/ Unlink(1) \/ Rename(1)
    \/ DirOpen(1) \/ DirFsync(1) \/ DirClose(1) \/ DirErrClose(1)
    \/ Open(1) \/ Fstat(1) \/ Write(1) \/ Fdatasync(1) \/ Close(1) \/ ErrClose(1)
    \/ Finish(1)

SpecSize == InitSize /\ [][NextSize]_vars

\* the call of the single writer has returned 0 and had rotation enabled
AppendedWithRotation ==
    /\ W.pc = "done" /\ W.ret = 0
    /\ W.max_bytes_config = FEATURE_ENABLED

\* C30: after every successful append of a single writer with rotation
\* enabled the log is a regular file of at most max_byte_val bytes, or it
\* is longer than max_byte_val and holds exactly the entry just written
C30_SizeBounded ==
    AppendedWithRotation
    => /\ Exists(names, LogPath)
       /\ inodes[Lookup(names, LogPath)].kind = "reg"
       /\ W.log_len = Len(W.log_buffer)
       /\ Len(MainData) <= (IF W.max_byte_val >= W.log_len
                            THEN W.max_byte_val ELSE W.log_len)
       /\ (Len(MainData) > W.max_byte_val) => (MainData = W.log_buffer)

\* the second entry fills the log to exactly max_byte_val bytes and does
\* not rotate it
C30_Witness ==
    /\ AppendedWithRotation
    /\ ~W.rotated
    /\ PreMainData # <<>>
    /\ Len(MainData) = W.max_byte_val
    /\ MainData = PreMainData \o W.log_buffer

\* the log was rotated and holds one entry longer than max_byte_val
C30_SingleLongEntry ==
    /\ AppendedWithRotation
    /\ W.rotated
    /\ MainData = W.log_buffer
    /\ Len(MainData) > W.max_byte_val
    /\ BackupData = PreMainData

\* ------------------------------------------------ a sequence of appends
\* a single writer that starts in an empty directory and makes up to
\* MaxSeqCalls calls with rotation enabled, the limit below one entry or
\* holding two; its record keeps every entry while all calls succeeded
MaxSeqCalls == 3
SeqByteVals == {10, 66}

RecordedAll(h, r, pid) ==
    IF h.clean /\ r.ret = 0
    THEN [h EXCEPT !.entries = Append(@, [time_ns |-> r.time_ns, pid |-> pid,
                                          msg |-> r.arg_msg])]
    ELSE [base |-> <<>>, entries |-> <<>>, clean |-> FALSE]

CallSeq(p) ==
    /\ CallWithin(p, {LogPath}, {<<"a">>}, SeqByteVals, MaxSeqCalls)
    /\ loc'[p].max_bytes_config = FEATURE_ENABLED

FinishSeq(p) ==
    /\ loc[p].pc = "done"
    /\ loc' = [loc EXCEPT ![p] = IdleLoc]
    /\ hist' = RecordedAll(hist, loc[p], PidOf(p))
    /\ UNCHANGED <<cli, names, inodes, disk_names, disk_data, fake_clock_fail, pre, calls, faults>>

NextSeq ==
    \/ CallSeq(1) \/ Stat(1) \/ Format(1)
    \/ RotateDecide(1) \/ Unlink(1) \/ Rename(1)
    \/ DirOpen(1) \/ DirFsync(1) \/ DirClose(1) \/ DirErrClose(1)
    \/ Open(1) \/ Fstat(1) \/ Write(1) \/ Fdatasync(1) \/ Close(1) \/ ErrClose(1)
    \/ FinishSeq(1)

SpecSeq == InitFresh /\ [][NextSeq]_vars

\* the entries k+1 .. n of the record, as they are written
LinesFrom(es, k, n) == Lines(SubSeq(es, k + 1, n))

\* C31: after any sequence of successful appends of a single writer with
\* rotation enabled, starting with neither log nor backup, the backup
\* followed by the log holds whole entries that are a contiguous suffix, in
\* call order, of all entries appended, and the log ends with the most
\* recent entry.
C31_SuffixOfEntries ==
    (W.pc = "idle" /\ hist.clean /\ hist.entries # <<>>)
    => LET es == hist.entries
           n == Len(es)
       IN  /\ \E k \in 0..(n - 1), j \in 0..(n - 1) :
                /\ k <= j
                /\ BackupData = LinesFrom(es, k, j)
                /\ MainData = LinesFrom(es, j, n)
           /\ EndsWith(MainData, Line(es[n].time_ns, es[n].pid, es[n].msg))

\* three appends, the last two rotating: the backup holds the second entry,
\* the log the third, and the first entry is in neither
C31_Witness ==
    /\ W.pc = "idle" /\ hist.clean
    /\ Len(hist.entries) = 3
    /\ hist.entries[1].time_ns < hist.entries[2].time_ns
    /\ hist.entries[2].time_ns < hist.entries[3].time_ns
    /\ BackupData = LinesFrom(hist.entries, 1, 2)
    /\ MainData = LinesFrom(hist.entries, 2, 3)

\* three appends under a limit that holds two entries: the backup holds the
\* first two, the log the third
C31_AllKept ==
    /\ W.pc = "idle" /\ hist.clean
    /\ Len(hist.entries) = 3
    /\ BackupData = LinesFrom(hist.entries, 0, 2)
    /\ MainData = LinesFrom(hist.entries, 2, 3)

\* the positions in the trace of the renames that failed
FailedRenames(r) == {i \in OpsAt(r, "rename", r.file_path) : ~r.ops[i].ok}

\* C32: a rotation whose rename fails returns 1 with the errno of rename
\* and issues no further system call; the log is still under its name with
\* the content it had, and the backup that existed before the call has been
\* unlinked and is not restored: no file is under the backup name.
C32_RenameFailureLosesBackup ==
    \A i \in FailedRenames(W) :
       LET bak == BackupName(W.file_path)
       IN  /\ W.pc = "done" /\ W.ret = 1
           /\ W.errno = W.ops[i].err
           /\ i = Len(W.ops) /\ i >= 2
           /\ W.ops[i - 1].op = "unlink" /\ W.ops[i - 1].path = bak
           /\ W.ops[i - 1].ok \/ W.ops[i - 1].err = "ENOENT"
           /\ W.ops[i - 1].ok <=> Exists(pre[1].names, bak)
           /\ Exists(names, W.file_path)
           /\ Lookup(names, W.file_path) = Lookup(pre[1].names, W.file_path)
           /\ MainData = PreMainData
           /\ ~Exists(names, bak)
           /\ W.fd = 0 /\ ~W.fd_dir

\* rename failed with EXDEV after the backup was unlinked: the call returned
\* 1, the log is as before and no backup is left
C32_Witness ==
    /\ W.pc = "done" /\ W.ret = 1 /\ W.errno = "EXDEV"
    /\ FailedRenames(W) # {}
    /\ Exists(pre[1].names, BackupName(LogPath))
    /\ PreBackupData # <<>>
    /\ ~Exists(names, BackupName(LogPath))
    /\ PreMainData # <<>> /\ MainData = PreMainData

\* --------------------------------------------- the width of the entry
\* a 64-bit unsigned value <<a, b, c>> stands for a * 10^18 + b * 10^9 + c,
\* each of b and c below 10^9
Limb == 1000000000

\* the lowest 9 decimal digits of a limb, zeros included
Pad9(n) == LET d == Decimal(n) IN [i \in 1..(9 - Len(d)) |-> "0"] \o d

\* %llu of a 64-bit unsigned value
DecimalWide(v) ==
    IF v[1] # 0 THEN Decimal(v[1]) \o Pad9(v[2]) \o Pad9(v[3])
    ELSE IF v[2] # 0 THEN Decimal(v[2]) \o Pad9(v[3])
    ELSE Decimal(v[3])

RECURSIVE Pow10(_)
Pow10(k) == IF k = 0 THEN 1 ELSE 10 * Pow10(k - 1)

\* the smallest value with k decimal digits, k in 1..20
WideOfDigits(k) ==
    IF k <= 9 THEN <<0, 0, Pow10(k - 1)>>
    ELSE IF k <= 18 THEN <<0, Pow10(k - 10), 0>>
    ELSE <<Pow10(k - 19), 0, 0>>

UINT64_MAX == <<18, 446744073, 709551615>>

\* readings of smartlog_timestamp_ns: 0, one value of every width, the
\* largest 64-bit value
TimeVals == {<<0, 0, 0>>, UINT64_MAX} \cup {WideOfDigits(k) : k \in 1..20}

\* values of getpid(), up to the largest pid_t
PidVals == {1, 41, 32768, 4194304, 2147483647}

\* messages of 1 byte up to far beyond the message limit
WideMsgArgs == {MsgOfLen(n) : n \in {1, 2, SMARTLOG_MSG_MAX_LEN - 3, SMARTLOG_MSG_MAX_LEN - 1,
                                      SMARTLOG_MSG_MAX_LEN, SMARTLOG_MSG_MAX_LEN + 1,
                                      300, 1000, 2000}}

\* snprintf "[%llu ns] [PID = %ld] [MESSAGE = %s]\n" of a 64-bit timestamp
FormatEntryWide(time_ns, pid, msg) ==
    <<"[">> \o DecimalWide(time_ns)
    \o <<" ", "n", "s", "]", " ", "[", "P", "I", "D", " ", "=", " ">>
    \o Decimal(pid)
    \o <<"]", " ", "[", "M", "E", "S", "S", "A", "G", "E", " ", "=", " ">>
    \o msg \o <<"]", "\n">>

\* one call on a path that names no file, with any message
CallAnyMsg(p) == CallWith(p, {LogPath}, WideMsgArgs, {})

\* the formatting step with any timestamp and any process id; a failed
\* clock reads 0 and sets errno
FormatAny(p) ==
    /\ loc[p].pc = "format"
    /\ \E time_ns \in TimeVals, pid \in PidVals, failed \in {"OK", "EIO", "EINVAL"} :
         LET r == loc[p]
             m == TruncateMsg(r.msg)
             line == FormatEntryWide(time_ns, pid, m)
             s == [r EXCEPT !.msg = m, !.time_ns = time_ns,
                            !.errno = IF failed = "OK" THEN @ ELSE failed,
                            !.log_buffer = line, !.log_len = Len(line)]
         IN  /\ (failed # "OK") => (time_ns = <<0, 0, 0>>)
             /\ loc' = [loc EXCEPT ![p] =
                       IF s.log_len >= SMARTLOG_LOG_BUFFER_SZ
                       THEN Return(s, 1, "EOVERFLOW")
                       ELSE [s EXCEPT !.pc = "rotate"]]
    /\ UNCHANGED <<cli, names, inodes, disk_names, disk_data, fake_clock_fail, pre, hist,
                   calls, faults>>

NextFormat == CallAnyMsg(1) \/ Stat(1) \/ FormatAny(1)

SpecFormat == InitFresh /\ [][NextFormat]_vars

\* the bytes of the entry other than the two numbers and the message
FixedWidth == 28

\* C33: for every 64-bit timestamp, every process id and every message the
\* line composed from the truncated message is at most 324 bytes, so the
\* call never returns EOVERFLOW and the entry length handed to rotation and
\* write is in 1..1023.
C33_LineFitsBuffer ==
    /\ W.errno # "EOVERFLOW"
    /\ (W.pc = "done") => (W.ret = 1 /\ W.log_len = 0)
    /\ (W.pc = "rotate")
       => /\ W.log_len = Len(W.log_buffer)
          /\ W.log_len >= 1 /\ W.log_len <= 324
          /\ W.log_len < SMARTLOG_LOG_BUFFER_SZ
          /\ Len(W.msg) >= 1 /\ Len(W.msg) <= SMARTLOG_MSG_MAX_LEN
          /\ Len(DecimalWide(W.time_ns)) \in 1..20
          /\ W.log_len - FixedWidth - Len(DecimalWide(W.time_ns)) - Len(W.msg) \in 1..10
          /\ W.log_buffer[W.log_len] = "\n"

\* the widest entry: the largest timestamp, the largest pid_t and a message
\* of 2000 bytes logged as 256
C33_Witness ==
    /\ W.pc = "rotate"
    /\ W.time_ns = UINT64_MAX
    /\ Len(W.arg_msg) = 2000
    /\ Len(W.msg) = SMARTLOG_MSG_MAX_LEN
    /\ W.log_len = FixedWidth + 20 + 10 + SMARTLOG_MSG_MAX_LEN
    /\ SubSeq(W.log_buffer, 1, 26) =
          <<"[", "1", "8", "4", "4", "6", "7", "4", "4", "0", "7", "3", "7", "0", "9",
            "5", "5", "1", "6", "1", "5", " ", "n", "s", "]", " ">>

\* ------------------------------------- smartlog_fsync_parent_dir alone
\* paths without a separator, with the separator first, with several
\* separators, at the limit of the path buffer and beyond it
DirSyncPaths ==
    {NULL, <<>>, <<"l">>, <<"l", "o", "g">>, <<"/">>, <<"/", "l">>, <<"/", "/", "l">>,
     LogPath, <<"d", "/">>, <<"/", "d", "/", "l">>, <<"d", "/", "e", "/", "l">>,
     <<"d", "/", "/", "l">>, <<"d", "/", "e", "/">>, <<".", "/", "l">>,
     PathOfLen(SMARTLOG_PATH_MAX_LEN - 1), PathOfLen(SMARTLOG_PATH_MAX_LEN),
     PathOfLen(SMARTLOG_PATH_MAX_LEN + 1)}

\* smartlog_fsync_parent_dir is called with any path; its result is taken
\* as the rotation step takes it
CallDirSync(p) ==
    /\ loc[p].pc = "idle"
    /\ \E path \in DirSyncPaths :
         loc' = [loc EXCEPT ![p] = [IdleLoc EXCEPT !.file_path = path, !.durable = FEATURE_ENABLED,
                                                   !.pc = "dir_open", !.site = "rot"]]
    /\ UNCHANGED <<cli, names, inodes, disk_names, disk_data, fake_clock_fail, pre, hist,
                   calls, faults>>

NextDirSync ==
    CallDirSync(1) \/ DirOpen(1) \/ DirFsync(1) \/ DirClose(1) \/ DirErrClose(1)

SpecDirSync == InitFresh /\ [][NextDirSync]_vars

\* the positions of the separators of a path
Slashes(path) == {i \in DOMAIN path : path[i] = "/"}

\* the directory a path lies in: ".", "/", or what precedes the last "/"
DirectoryOf(path) ==
    LET slashes == Slashes(path)
    IN  IF slashes = {} THEN <<".">>
        ELSE IF slashes = {1} THEN <<"/">>
        ELSE LET last == CHOOSE i \in DOMAIN path :
                            /\ path[i] = "/"
                            /\ \A j \in (i + 1)..Len(path) : path[j] # "/"
             IN  SubSeq(path, 1, last - 1)

\* C34: smartlog_fsync_parent_dir opens, syncs and closes "." for a path
\* without "/", "/" when the only "/" is the first byte, and otherwise the
\* part of the path before its last "/"; for a NULL or empty path it fails
\* with EINVAL and for a path of SMARTLOG_PATH_MAX_LEN bytes or more with
\* ENAMETOOLONG, in both cases without any system call.
C34_ParentDirectory ==
    (W.pc # "idle")
    => LET path == W.file_path
           bad == path = NULL \/ path = <<>>
           long == ~bad /\ Len(path) >= SMARTLOG_PATH_MAX_LEN
           dir == DirectoryOf(path)
       IN  /\ (bad \/ long)
              => /\ W.ops = <<>> /\ ~W.fd_dir
                 /\ W.pc \in {"dir_open", "done"}
                 /\ (W.pc = "done")
                    => /\ W.ret = 1
                       /\ W.errno = (IF bad THEN "EINVAL" ELSE "ENAMETOOLONG")
           /\ (~bad /\ ~long)
              => /\ \A i \in DOMAIN W.ops : W.ops[i].path = dir
                 /\ (W.pc # "dir_open")
                    => /\ W.ops # <<>> /\ W.ops[1].op = "open"
                 /\ (W.pc = "open")
                    => /\ [i \in DOMAIN W.ops |-> W.ops[i].op] = <<"open", "fsync", "close">>
                       /\ \A i \in DOMAIN W.ops : W.ops[i].ok
                 /\ (W.pc = "done") => (W.ret = 1 /\ \E i \in DOMAIN W.ops : ~W.ops[i].ok)

\* the directory before the last of two separators was synced
C34_Witness ==
    /\ W.pc = "open"
    /\ W.file_path = <<"d", "/", "e", "/", "l">>
    /\ W.ops = <<Op("open", <<"d", "/", "e">>), Op("fsync", <<"d", "/", "e">>),
                 Op("close", <<"d", "/", "e">>)>>

\* the root, the current directory, and the two rejected kinds of path
C34_Root == W.pc = "open" /\ W.file_path = <<"/", "l">> /\ W.ops[2] = Op("fsync", <<"/">>)
C34_Current == W.pc = "open" /\ W.file_path = <<"l", "o", "g">> /\ W.ops[2] = Op("fsync", <<".">>)
C34_Empty == W.pc = "done" /\ W.file_path = <<>> /\ W.errno = "EINVAL" /\ W.ops = <<>>
C34_TooLong ==
    /\ W.pc = "done" /\ Len(W.file_path) = SMARTLOG_PATH_MAX_LEN
    /\ W.errno = "ENAMETOOLONG" /\ W.ops = <<>>
C34_Longest ==
    /\ W.pc = "open" /\ Len(W.file_path) = SMARTLOG_PATH_MAX_LEN - 1
    /\ Len(W.ops[1].path) = SMARTLOG_PATH_MAX_LEN - 3

\* ------------------------------------- mini_log with the SIGINT handler
MESSAGE_LEN_MAX == 200

\* the message that mini_log logs: msg, or its first 197 bytes and "..."
SigTruncate(msg) == IF StrLen(msg) > MESSAGE_LEN_MAX
                    THEN SubSeq(msg, 1, MESSAGE_LEN_MAX - 3) \o <<".", ".", ".">>
                    ELSE msg

\* the locals of main and the flag the handler sets; stop_read is the value
\* of stop the test before the write read, -1 before that test
SigIdle ==
    [pc |-> "idle", file_path |-> NULL, msg |-> NULL, durable |-> 0,
     max_bytes_config |-> 0, max_byte_val |-> 0,
     stop |-> 0, stop_read |-> -1,
     file1_exist |-> 0, stat1_errno |-> "OK", st_size |-> 0,
     log_buffer |-> <<>>, log_len |-> 0, fd |-> 0, total |-> 0, errno |-> "OK",
     rotated |-> FALSE, failed |-> "none", status |-> -1]

\* what main leaves alone
SigFrame == <<loc, pre, hist, calls, fake_clock_fail>>

\* return 1 after the step named f failed
SigExit(c, f) == [c EXCEPT !.pc = "exit", !.status = 1, !.failed = f]

InitSig ==
    /\ \E main \in {<<>>, <<[kind |-> "reg", data |-> <<"x", "\n">>]>>},
          bak \in {<<>>, <<[kind |-> "reg", data |-> <<"o", "\n">>]>>} :
         /\ inodes = main \o bak
         /\ names = [n \in AllNames |->
                       IF n = LogPath THEN Len(main)
                       ELSE IF n = BackupName(LogPath)
                       THEN (IF bak = <<>> THEN 0 ELSE Len(main) + 1)
                       ELSE 0]
    /\ disk_names = names
    /\ disk_data = [i \in DOMAIN inodes |-> inodes[i].data]
    /\ fake_clock_fail = FALSE
    /\ loc = [p \in Procs |-> IdleLoc]
    /\ pre = [p \in Procs |-> [names |-> names, inodes |-> inodes]]
    /\ hist = NoHist(names, inodes)
    /\ calls = 0
    /\ faults = 0
    /\ cli = SigIdle

\* main is entered, installs the handler and has parsed its arguments
SigStart ==
    /\ cli.pc = "idle"
    /\ \E msg \in {<<"m">>, MsgOfLen(MESSAGE_LEN_MAX + 1)}, durable \in {0, 1},
          val \in {0, 5, 66} :
         cli' = [SigIdle EXCEPT !.pc = "stat", !.file_path = LogPath, !.msg = msg,
                                !.durable = durable,
                                !.max_bytes_config = IF val = 0 THEN 0 ELSE 1,
                                !.max_byte_val = val]
    /\ UNCHANGED <<names, inodes, disk_names, disk_data, faults>>
    /\ UNCHANGED SigFrame

\* SIGINT is delivered and signal_handle runs between two steps of main
SigInt ==
    /\ cli.pc \notin {"idle", "exit"}
    /\ cli.stop = 0
    /\ cli' = [cli EXCEPT !.stop = 1]
    /\ UNCHANGED <<names, inodes, disk_names, disk_data, faults>>
    /\ UNCHANGED SigFrame

\* stat(file_path) and the checks on its result
SigStat ==
    /\ cli.pc = "stat"
    /\ LET i == Lookup(names, cli.file_path)
       IN  \/ /\ CanFault
              /\ faults' = faults + 1
              /\ cli' = SigExit([cli EXCEPT !.file1_exist = -1, !.stat1_errno = "EACCES"], "stat")
           \/ /\ UNCHANGED faults
              /\ cli' = IF i = 0
                        THEN [cli EXCEPT !.file1_exist = -1, !.stat1_errno = "ENOENT",
                                         !.pc = "format"]
                        ELSE IF inodes[i].kind = "dir" THEN SigExit(cli, "stat_isdir")
                        ELSE [cli EXCEPT !.file1_exist = 0, !.st_size = StSize(inodes[i]),
                                         !.pc = "format"]
    /\ UNCHANGED <<names, inodes, disk_names, disk_data>>
    /\ UNCHANGED SigFrame

\* the entry is built, and the rotation is decided
SigFormat ==
    /\ cli.pc = "format"
    /\ LET m == SigTruncate(cli.msg)
           line == FormatEntry(TimestampValue(ClockSec(1), ClockNsec(1)), PidOf(1), m)
           c == [cli EXCEPT !.msg = m, !.log_buffer = line, !.log_len = Len(line)]
       IN  cli' = IF c.log_len >= 1024 THEN SigExit(c, "snprintf")
                  ELSE IF c.max_bytes_config = 1 /\ c.file1_exist = 0
                          /\ c.max_byte_val < c.st_size + c.log_len
                  THEN IF StrLen(BackupName(c.file_path)) >= 4096
                       THEN SigExit(c, "snprintf")
                       ELSE [c EXCEPT !.pc = "unlink"]
                  ELSE [c EXCEPT !.pc = "open"]
    /\ UNCHANGED <<names, inodes, disk_names, disk_data, faults>>
    /\ UNCHANGED SigFrame

\* unlink(new_path), ENOENT ignored
SigUnlink ==
    /\ cli.pc = "unlink"
    /\ LET new_path == BackupName(cli.file_path)
       IN  \/ /\ CanFault
              /\ faults' = faults + 1
              /\ cli' = SigExit(cli, "unlink")
              /\ UNCHANGED <<names, inodes>>
           \/ /\ UNCHANGED faults
              /\ cli' = [cli EXCEPT !.pc = "rename"]
              /\ names' = IF Lookup(names, new_path) = 0 THEN names
                          ELSE [names EXCEPT ![new_path] = 0]
              /\ inodes' = Reclaim(inodes, names', loc)
    /\ UNCHANGED <<disk_names, disk_data>>
    /\ UNCHANGED SigFrame

\* rename(file_path, new_path)
SigRename ==
    /\ cli.pc = "rename"
    /\ \/ /\ CanFault
          /\ faults' = faults + 1
          /\ cli' = SigExit(cli, "rename")
          /\ UNCHANGED <<names, inodes>>
       \/ /\ UNCHANGED faults
          /\ cli' = [cli EXCEPT !.pc = "dirsync"]
          /\ names' = Renamed(names, cli.file_path, BackupName(cli.file_path))
          /\ inodes' = Reclaim(inodes, names', loc)
    /\ UNCHANGED <<disk_names, disk_data>>
    /\ UNCHANGED SigFrame

\* open("."), fsync and close of it: the directory synced is the current
\* one, which is the directory of the log only when the path has no "d/"
SigDirSync ==
    /\ cli.pc = "dirsync"
    /\ \/ /\ CanFault
          /\ faults' = faults + 1
          /\ \E f \in {"open_dir", "fsync_dir", "close_dir"} : cli' = SigExit(cli, f)
       \/ /\ UNCHANGED faults
          /\ cli' = [cli EXCEPT !.stat1_errno = "ENOENT", !.file1_exist = -1,
                                !.rotated = TRUE, !.pc = "open"]
    /\ disk_names' = IF <<".">> = ParentDir(cli.file_path) /\ cli'.pc = "open"
                     THEN names ELSE disk_names
    /\ UNCHANGED <<names, inodes, disk_data>>
    /\ UNCHANGED SigFrame

\* open(file_path, O_WRONLY | O_CREAT | O_APPEND, mode)
SigOpen ==
    /\ cli.pc = "open"
    /\ LET i == Lookup(names, cli.file_path)
       IN  \/ /\ CanFault
              /\ faults' = faults + 1
              /\ cli' = SigExit(cli, "open")
              /\ UNCHANGED <<names, inodes, disk_data>>
           \/ /\ UNCHANGED faults
              /\ IF i = 0
                 THEN /\ inodes' = Append(inodes, [kind |-> "reg", data |-> <<>>])
                      /\ disk_data' = Append(disk_data, <<>>)
                      /\ names' = [names EXCEPT ![cli.file_path] = Len(inodes) + 1]
                      /\ cli' = [cli EXCEPT !.fd = Len(inodes) + 1, !.pc = "fstat"]
                 ELSE /\ cli' = [cli EXCEPT !.fd = i, !.pc = "fstat"]
                      /\ UNCHANGED <<names, inodes, disk_data>>
    /\ UNCHANGED disk_names
    /\ UNCHANGED SigFrame

\* fstat(fd); its failure ends the run only for a file that was absent
SigFstat ==
    /\ cli.pc = "fstat"
    /\ \/ /\ CanFault
          /\ faults' = faults + 1
          /\ cli' = IF cli.file1_exist # 0 /\ cli.stat1_errno = "ENOENT"
                    THEN SigExit([cli EXCEPT !.fd = 0], "fstat")
                    ELSE [cli EXCEPT !.pc = "check"]
       \/ /\ UNCHANGED faults
          /\ cli' = [cli EXCEPT !.pc = "check"]
    /\ UNCHANGED <<names, inodes, disk_names, disk_data>>
    /\ UNCHANGED SigFrame

\* the test of stop before the write
AfterStopCheckIgnored(c, stop) ==
    [c EXCEPT !.stop_read = stop, !.pc = "write", !.total = 0, !.errno = "OK"]
AfterStopCheck(c, stop) ==
    IF stop = 1
    THEN [SigExit(c, "sigint") EXCEPT !.stop_read = stop, !.fd = 0]
    ELSE [c EXCEPT !.stop_read = stop, !.pc = "write", !.total = 0, !.errno = "OK"]

SigCheck ==
    /\ cli.pc = "check"
    /\ cli' = AfterStopCheck(cli, cli.stop)
    /\ UNCHANGED <<names, inodes, disk_names, disk_data, faults>>
    /\ UNCHANGED SigFrame

\* one write() of the loop of write_all: all remaining bytes, some of them,
\* interrupted by the handler (retried), or failed (close, return 1)
SigWrite ==
    /\ cli.pc = "write"
    /\ LET rem == cli.log_len - cli.total
           put(n) == inodes' = [inodes EXCEPT ![cli.fd].data =
                                   @ \o SubSeq(cli.log_buffer, cli.total + 1, cli.total + n)]
           wrote(n) == LET c == [cli EXCEPT !.total = @ + n]
                       IN  IF c.total < c.log_len THEN c
                           ELSE IF c.durable # 0 THEN [c EXCEPT !.pc = "fdatasync"]
                           ELSE [c EXCEPT !.pc = "close"]
       IN  \/ /\ put(rem)
              /\ cli' = wrote(rem)
              /\ UNCHANGED faults
           \/ /\ cli.total = 0
              /\ \E n \in ShortCounts(rem) : put(n) /\ cli' = wrote(n)
              /\ UNCHANGED faults
           \/ /\ cli.stop = 0
              /\ cli' = [cli EXCEPT !.stop = 1, !.errno = "EINTR"]
              /\ UNCHANGED <<inodes, faults>>
           \/ /\ CanFault
              /\ faults' = faults + 1
              /\ \E e \in {"EIO", "ENOSPC"} :
                    cli' = SigExit([cli EXCEPT !.errno = e, !.fd = 0], "write")
              /\ UNCHANGED inodes
    /\ UNCHANGED <<names, disk_names, disk_data>>
    /\ UNCHANGED SigFrame

\* fdatasync(fd) of a durable run
SigFdatasync ==
    /\ cli.pc = "fdatasync"
    /\ \/ /\ CanFault
          /\ faults' = faults + 1
          /\ cli' = SigExit([cli EXCEPT !.fd = 0], "fdatasync")
          /\ UNCHANGED disk_data
       \/ /\ UNCHANGED faults
          /\ cli' = [cli EXCEPT !.pc = "close"]
          /\ disk_data' = [disk_data EXCEPT ![cli.fd] = inodes[cli.fd].data]
    /\ UNCHANGED <<names, inodes, disk_names>>
    /\ UNCHANGED SigFrame

\* close(fd) and the return of main
SigClose ==
    /\ cli.pc = "close"
    /\ \/ /\ CanFault
          /\ faults' = faults + 1
          /\ cli' = SigExit([cli EXCEPT !.fd = 0], "close")
       \/ /\ UNCHANGED faults
          /\ cli' = [cli EXCEPT !.pc = "exit", !.status = 0, !.fd = 0]
    /\ UNCHANGED <<names, inodes, disk_names, disk_data>>
    /\ UNCHANGED SigFrame

NextSig ==
    \/ SigStart \/ SigInt \/ SigStat \/ SigFormat
    \/ SigUnlink \/ SigRename \/ SigDirSync
    \/ SigOpen \/ SigFstat \/ SigCheck \/ SigWrite \/ SigFdatasync \/ SigClose

SpecSig == InitSig /\ [][NextSig]_vars

\* what the log holds when main opens it: nothing after a rotation
SigOpenedData == IF cli.rotated THEN <<>> ELSE PreMainData

\* C35: when the test before the write reads stop = 1 the run closes the
\* descriptor and returns 1 with no byte of the entry written, the log it
\* created or the rotation it made staying as they are; when the test reads
\* stop = 0, a SIGINT delivered later ends nothing: short of a failing
\* system call the run writes the whole line and returns 0, and the log
\* never holds anything but its old content and a prefix of the line.
C35_SigintBeforeWriteOnly ==
    /\ (cli.stop_read = 1)
       => /\ cli.pc = "exit" /\ cli.status = 1 /\ cli.failed = "sigint"
          /\ cli.fd = 0 /\ cli.total = 0
          /\ Exists(names, LogPath)
          /\ MainData = SigOpenedData
          /\ cli.rotated => (BackupData = PreMainData /\ PreMainData # <<>> /\ MainData = <<>>)
          /\ ~Exists(pre[1].names, LogPath) => MainData = <<>>
    /\ (cli.stop_read = 0)
       => /\ MainData = SigOpenedData \o SubSeq(cli.log_buffer, 1, cli.total)
          /\ (cli.pc = "exit")
             => /\ cli.failed # "sigint"
                /\ (cli.status = 0) <=> (cli.failed = "none")
                /\ (cli.status = 0) => (cli.total = cli.log_len /\ cli.log_len > 0)
                /\ (cli.failed = "write") <=> (cli.total < cli.log_len)
    /\ (cli.failed = "sigint") => (cli.stop_read = 1)
    /\ (cli.pc = "exit" /\ cli.status = 0) => (cli.stop_read = 0)
    /\ (cli.stop_read = -1) => (cli.total = 0 /\ cli.pc \notin {"write", "fdatasync", "close"})

\* SIGINT arrived before the test: the run rotated the log, created an
\* empty one and returned 1 without writing
C35_Witness ==
    /\ cli.pc = "exit" /\ cli.status = 1 /\ cli.failed = "sigint"
    /\ cli.rotated
    /\ Exists(names, LogPath) /\ MainData = <<>>
    /\ BackupData = PreMainData /\ PreMainData # <<>>
    /\ PreBackupData # <<>>

\* SIGINT arrived during the write: the run returned 0 with the whole line
\* appended
C35_LateSigint ==
    /\ cli.pc = "exit" /\ cli.status = 0
    /\ cli.stop = 1 /\ cli.stop_read = 0 /\ cli.errno = "EINTR"
    /\ PreMainData # <<>> /\ ~cli.rotated
    /\ MainData = PreMainData \o cli.log_buffer

====
